---- MODULE Spec2Model ----
(***************************************************************************)
(* State-machine model of the ledger-submission client of aisignals:       *)
(* ChainSignalsClient (src/unnamed/part_003) and the way runOnce           *)
(* (src/src/index.js) drives it.                                           *)
(*                                                                         *)
(* One postSignal invocation is an asynchronous call: it runs from one     *)
(* suspension point (an awaited JSON-RPC request) to the next without      *)
(* being interrupted, and any other invocation may run in between.  Each   *)
(* action below is the code of postSignal from the arrival of one RPC      *)
(* response to the issue of the next RPC request (or to the return/throw). *)
(*                                                                         *)
(* Amounts are wei.  A value configured in gwei is held as a whole number  *)
(* of millionths of a gwei; ParseUnitsGwei turns it into wei.  All amounts *)
(* stay below 2^31.                                                        *)
(***************************************************************************)
EXTENDS Integers, Sequences, FiniteSets, TLC

(***************************************************************************)
(* Bounds of the model.                                                    *)
(***************************************************************************)
\* number of postSignal invocations made on the one client instance
MaxCalls == 2

Calls == 1..MaxCalls

\* number of entries the account's id list can hold
MaxIds == 5
\* the largest number of attempts a polling loop is given
MaxAttempts == 3
\* the longest timeout a receipt poll is given, in timer ticks
MaxTimeout == 3
\* the number of strategies of a run
MaxStrategies == 2
\* the number of progress ticks followed while a submission is awaited
MaxTicks == 2
\* how far past MAX the explanation texts the model draws from go
MaxExtra == 3
\* the largest retries option postWithRetry is given
MaxRetries == 3

(***************************************************************************)
(* Program constants.                                                      *)
(***************************************************************************)
\* this._nextNonce = null / this._remoteChainId = null
NULL == -1
\* strategy label: 1-30 chars
MaxStrategyLen == 30
\* asset label: 1-10 chars
MaxAssetLen == 10
\* message: up to 280 chars
MaxMessageLen == 280
MinLeverage == 1
MaxLeverage == 5
MinWeight == 1
MaxWeight == 100
\* est ?? 300_000n
FallbackGasEstimate == 300000
\* (gasEstimate * 122n) / 100n
GasBufferNum == 122
GasBufferDen == 100
\* "Default priority fee: 1 gwei", in millionths of a gwei
DefaultPrioGwei == 1000000
\* receiptTimeoutSec is never assigned: Number(undefined ?? 0)
ReceiptTimeoutSec == 0
\* tryParams of _getTransactionCount has three request shapes
TxCountShapes == 3
\* uint8 / uint16 of the ABI
MaxUint8 == 255
MaxUint16 == 65535

(***************************************************************************)
(* JavaScript values that reach postSignal.                                *)
(* A string is its length and the number of whitespace characters at its   *)
(* two ends (pad = len for an all-whitespace string).                      *)
(***************************************************************************)
Str(len, pad) == [k |-> "string", len |-> len, pad |-> pad]
Undefined == [k |-> "undefined", len |-> 0, pad |-> 0]
Null == [k |-> "null", len |-> 0, pad |-> 0]
EmptyStr == Str(0, 0)

IsNullish(v) == v.k \in {"undefined", "null"}
\* a ?? b
Coalesce(a, b) == IF IsNullish(a) THEN b ELSE a
\* String(v).trim() of a string value
Trim(s) == Str(s.len - s.pad, 0)

\* numbers: a finite integer or NaN
Num(n) == [k |-> "number", v |-> n]
NaN == [k |-> "NaN", v |-> 0]
UndefNum == [k |-> "undefined", v |-> 0]
\* Number(x ?? 1)
NumberOr1(x) == IF x.k = "undefined" THEN Num(1) ELSE x
IsFinite(x) == x.k = "number"

\* target values: a number, a bigint or a string (given by its text)
TNum(n) == [k |-> "number", v |-> n, s |-> ""]
TBig(n) == [k |-> "bigint", v |-> n, s |-> ""]
TStr(t) == [k |-> "string", v |-> 0, s |-> t]
TUndef == [k |-> "undefined", v |-> 0, s |-> ""]

\* String(target ?? "").trim().toLowerCase() on the texts the model uses
TrimLower(t) ==
  CASE t \in {"Long", "long", " LONG "} -> "long"
    [] t \in {"Short", "short", "SHORT"} -> "short"
    [] t \in {"0", " 0"} -> "0"
    [] t \in {"1", "1 "} -> "1"
    [] t = "2" -> "2"
    [] t = "Buy" -> "buy"
    [] OTHER -> ""

(***************************************************************************)
(* postSignal: the request and its validation (all synchronous, before the *)
(* first await).                                                           *)
(***************************************************************************)
\* the request built by runOnce, with the field values the model varies
BaseRequest ==
  [strategy |-> Undefined, strategyName |-> Str(20, 0), strategy_name |-> Undefined,
   strategyTitle |-> Undefined, name |-> Undefined,
   asset |-> Str(3, 0), message |-> Str(100, 0), comment |-> Undefined,
   target |-> TStr("Long"), leverage |-> Num(1), weight |-> Num(100)]

StrategyInputs ==
  {Undefined, Null, Str(0, 0), Str(1, 0), Str(30, 0), Str(31, 0), Str(32, 2), Str(3, 3)}
AssetInputs ==
  {Undefined, Str(0, 0), Str(1, 0), Str(10, 0), Str(11, 0), Str(11, 1), Str(2, 2)}
MessageInputs ==
  {Undefined, Null, Str(0, 0), Str(280, 0), Str(281, 0), Str(281, 1), Str(300, 5)}
CommentInputs == {Null, Str(10, 0), Str(281, 0)}
TargetInputs ==
  {TNum(0), TNum(1), TNum(2), TNum(256), TNum(-1), TBig(0), TBig(1), TBig(2),
   TStr("Long"), TStr("SHORT"), TStr(" 0"), TStr("1 "), TStr("2"), TStr("Buy"), TUndef}
LeverageInputs == {UndefNum, NaN, Num(0), Num(1), Num(5), Num(6)}
WeightInputs == {UndefNum, NaN, Num(0), Num(1), Num(100), Num(101)}

\* every request differs from BaseRequest in one argument
Requests ==
  {[BaseRequest EXCEPT !.strategyName = s] : s \in StrategyInputs}
  \cup {[BaseRequest EXCEPT !.strategy = Str(5, 0), !.strategyName = Str(31, 0)],
        [BaseRequest EXCEPT !.strategyName = Undefined, !.name = Str(4, 0)],
        [BaseRequest EXCEPT !.strategyName = Undefined, !.strategy_name = Str(31, 0)],
        [BaseRequest EXCEPT !.strategyName = Null, !.strategyTitle = Str(30, 0)]}
  \cup {[BaseRequest EXCEPT !.asset = a] : a \in AssetInputs}
  \cup {[BaseRequest EXCEPT !.message = m] : m \in MessageInputs}
  \cup {[BaseRequest EXCEPT !.message = Undefined, !.comment = m] : m \in CommentInputs}
  \cup {[BaseRequest EXCEPT !.target = t] : t \in TargetInputs}
  \cup {[BaseRequest EXCEPT !.leverage = l] : l \in LeverageInputs}
  \cup {[BaseRequest EXCEPT !.weight = w] : w \in WeightInputs}

\* what runOnce passes in the interleaved exploration: its usual request, and one
\* whose strategy name is too long
CallerRequests == {BaseRequest, [BaseRequest EXCEPT !.strategyName = Str(31, 0)]}

\* strategy ?? strategyName ?? strategy_name ?? strategyTitle ?? name ?? ... ?? undefined
RawStrategy(req) ==
  Coalesce(req.strategy, Coalesce(req.strategyName, Coalesce(req.strategy_name,
    Coalesce(req.strategyTitle, Coalesce(req.name, Undefined)))))

\* String(v ?? "")
StringOf(v) == Coalesce(v, EmptyStr)

\* const strat = String(rawStrategy ?? "").trim()
StratOf(req) == Trim(StringOf(RawStrategy(req)))
\* const a = String(asset ?? "").trim()
AssetOf(req) == Trim(StringOf(req.asset))
\* comment = "" is the parameter default: it replaces undefined only
CommentOf(req) == IF req.comment.k = "undefined" THEN EmptyStr ELSE req.comment
\* const msg = String(message ?? comment ?? "").trim()
MsgOf(req) == Trim(StringOf(Coalesce(req.message, CommentOf(req))))

\* the target normalisation; "throw" stands for the thrown Invalid target error
TargetEnumOf(target) ==
  IF target.k = "number" THEN [ok |-> TRUE, v |-> target.v]
  ELSE IF target.k = "bigint" THEN [ok |-> TRUE, v |-> target.v]
  ELSE LET tstr == IF target.k = "undefined" THEN "" ELSE TrimLower(target.s)
       IN  IF tstr \in {"long", "0"} THEN [ok |-> TRUE, v |-> 0]
           ELSE IF tstr \in {"short", "1"} THEN [ok |-> TRUE, v |-> 1]
           ELSE [ok |-> FALSE, v |-> 0]

\* iface.encodeFunctionData: a uint8/uint16 argument outside its range throws
EncodeOk(targetEnum, lev, w) ==
  /\ targetEnum \in 0..MaxUint8
  /\ lev \in 0..MaxUint8
  /\ w \in 0..MaxUint16

\* ValidationError without the check of the message length
ValidationErrorNoMessageCheck(req) ==
  LET strat == StratOf(req)
      a == AssetOf(req)
      t == TargetEnumOf(req.target)
      lev == NumberOr1(req.leverage)
      w == NumberOr1(req.weight)
  IN  IF strat.len < 1 \/ strat.len > MaxStrategyLen THEN "Invalid strategy"
      ELSE IF a.len < 1 \/ a.len > MaxAssetLen THEN "Invalid asset"
      ELSE IF ~t.ok THEN "Invalid target"
      ELSE IF ~IsFinite(lev) \/ lev.v < MinLeverage \/ lev.v > MaxLeverage
        THEN "Invalid leverage"
      ELSE IF ~IsFinite(w) \/ w.v < MinWeight \/ w.v > MaxWeight THEN "Invalid weight"
      ELSE IF ~EncodeOk(t.v, lev.v, w.v) THEN "encode"
      ELSE "none"

\* the error postSignal throws before its first await, or "none"
ValidationError(req) ==
  LET strat == StratOf(req)
      a == AssetOf(req)
      msg == MsgOf(req)
      t == TargetEnumOf(req.target)
      lev == NumberOr1(req.leverage)
      w == NumberOr1(req.weight)
  IN  IF strat.len < 1 \/ strat.len > MaxStrategyLen THEN "Invalid strategy"
      ELSE IF a.len < 1 \/ a.len > MaxAssetLen THEN "Invalid asset"
      ELSE IF msg.len > MaxMessageLen THEN "Invalid message"
      ELSE IF ~t.ok THEN "Invalid target"
      ELSE IF ~IsFinite(lev) \/ lev.v < MinLeverage \/ lev.v > MaxLeverage
        THEN "Invalid leverage"
      ELSE IF ~IsFinite(w) \/ w.v < MinWeight \/ w.v > MaxWeight THEN "Invalid weight"
      ELSE IF ~EncodeOk(t.v, lev.v, w.v) THEN "encode"
      ELSE "none"

(***************************************************************************)
(* Pure helpers of the client.                                             *)
(***************************************************************************)
\* clampBigInt without the upper limit
clampBigIntNoMax(v, min, max) == IF v < min THEN min ELSE v

\* clampBigInt(v, min, max)
clampBigInt(v, min, max) == IF v < min THEN min ELSE IF v > max THEN max ELSE v

\* ethers.parseUnits(String(x), "gwei") for x held in millionths of a gwei
ParseUnitsGwei(microGwei) == microGwei * 1000

\* Math.floor(mul * 1000) for mul held in ten-thousandths
FloorPermille(mul) == mul \div 10

\* Math.round(mul * 1000) for mul held in ten-thousandths
RoundPermille(mul) == (mul + 5) \div 10

Max(a, b) == IF a > b THEN a ELSE b
Min(a, b) == IF a < b THEN a ELSE b

(***************************************************************************)
(* State.                                                                  *)
(***************************************************************************)
VARIABLES
  cfg,            \* the constructor's options and environment (fixed after construction)
  endpoint,       \* what the endpoint currently answers to the stateless queries
  nextNonce,      \* this._nextNonce
  supports1559,   \* this._supports1559: "null", "true" or "false"
  remoteChainId,  \* this._remoteChainId
  calls,          \* the postSignal invocations: position, locals, outcome
  overlap,        \* an allocation began while another one's count query was in flight
  allocLog,       \* while no allocation has overlapped another: the nonces that
                  \* _allocNonce has returned, in the order it returned them
  firstCount,     \* while no allocation has overlapped another: the count of the
                  \* first successful eth_getTransactionCount
  firstShape      \* while every invocation has begun after the one before it ended:
                  \* the request shape that obtained that count, 1 for the "pending"
                  \* tag, 2 for "latest", 3 for the tag omitted; 0 once an invocation
                  \* has begun during another
VARIABLES
  ledger,         \* the strategy labels of the account's entries on the ledger, oldest first
  idsCache,       \* this._traderSignalIdsCache, for the one account
  sigCache,       \* this._signalByIdCache: the ids it holds
  reads,          \* the getRecentSignalsForStrategy invocations
  rpcId           \* this._rpcId

postVars == <<nextNonce, supports1559, remoteChainId, calls, overlap,
              allocLog, firstCount, firstShape>>
readVars == <<ledger, idsCache, sigCache, reads, rpcId>>

VARIABLES
  poll,           \* the polling loop in progress: its kind, position and locals
  timedOut        \* the postSignal invocations whose send timeout runOnce has reported

waitVars == <<poll, timedOut>>

VARIABLES
  run,            \* runOnce: its position in the strategy loop, what it has logged and posted
  tidy,           \* an explanation text and what tidyExplanation makes of it
  codec,          \* a decision signal, the pair posted for it and the signal read back
  retry           \* postWithRetry: its position and locals

appVars == <<run, tidy, codec, retry>>

vars == <<cfg, endpoint, nextNonce, supports1559, remoteChainId, calls, overlap,
          allocLog, firstCount, firstShape, ledger, idsCache, sigCache, reads, rpcId,
          poll, timedOut, run, tidy, codec, retry>>

\* this.priorityFeeGwei is never assigned
priorityFeeGwei == 0

\* the configurations of the one-invocation exploration; gwei values in millionths
\* of a gwei, the multiplier in ten-thousandths, 0 for a fixed gas price that is not set
Configs ==
  [chainId : {167},
   txTypePref : {"auto", "legacy", "eip1559"},
   maxGasPriceGwei : {1, 2000000},
   gasPriceGwei : {0, 3},
   gasPriceMultiplier : {4, 10000, 12345},
   waitReceipt : {FALSE}]
  \cup
  [chainId : {0},
   txTypePref : {"auto"},
   maxGasPriceGwei : {2000000},
   gasPriceGwei : {0},
   gasPriceMultiplier : {10000},
   waitReceipt : BOOLEAN]

\* the configurations under which interleaved invocations are explored
RaceConfigs ==
  [chainId : {0},
   txTypePref : {"auto"},
   maxGasPriceGwei : {2000000},
   gasPriceGwei : {0},
   gasPriceMultiplier : {10000},
   waitReceipt : {FALSE}]

\* the configurations under which invocations that follow one another are explored
SeqConfigs ==
  [chainId : {0, 167},
   txTypePref : {"auto"},
   maxGasPriceGwei : {2000000},
   gasPriceGwei : {0},
   gasPriceMultiplier : {10000},
   waitReceipt : {FALSE}]

NoResult == [txHash |-> <<>>, status |-> "", nonce |-> NULL, chainId |-> NULL]

\* an invocation that has not been made yet
IdleCall ==
  [pc |-> "idle", rung |-> 0,
   targetEnum |-> NULL, chainId |-> NULL, nonce |-> NULL, gasLimit |-> NULL,
   valueWei |-> NULL, type |-> NULL, gasPrice |-> NULL, maxFeePerGas |-> NULL,
   maxPriorityFeePerGas |-> NULL,
   result |-> NoResult, err |-> "none", usedRpc |-> FALSE, nSend |-> 0]

(***************************************************************************)
(* The endpoint's answers.                                                 *)
(***************************************************************************)
Fail == [ok |-> FALSE, v |-> 0]
Ok(n) == [ok |-> TRUE, v |-> n]
BaseFees == {0, 7, 1000000000}
GasPrices == {0, 1, 1500, 1000000}
TxCounts == {5, 6}

\* the answers that do not depend on what the client has sent: the gas estimate,
\* the contract's postFee, the latest base fee, the suggested gas price, and
\* whether eth_getTransactionByHash returns a transaction the endpoint gave a hash for
Endpoints ==
  [estimateGas : {Ok(21000)},
   postFee : {Ok(7)},
   baseFee : {Fail} \cup {Ok(b) : b \in BaseFees},
   gasPrice : {Fail} \cup {Ok(g) : g \in GasPrices},
   txByHash : {FALSE}]
  \cup
  [estimateGas : {Fail, [ok |-> TRUE, v |-> NULL], Ok(21000)},
   postFee : {Fail, Ok(7)},
   baseFee : {Ok(7)},
   gasPrice : {Ok(1500)},
   txByHash : BOOLEAN]
RaceEndpoints ==
  [estimateGas : {Ok(21000)},
   postFee : {Ok(7)},
   baseFee : {Fail, Ok(7)},
   gasPrice : {Ok(1500)},
   txByHash : {FALSE}]

\* RaceEndpoints, and the endpoints whose eth_gasPrice fails too
SeqEndpoints ==
  [estimateGas : {Ok(21000)},
   postFee : {Ok(7)},
   baseFee : {Fail, Ok(7)},
   gasPrice : {Fail, Ok(1500)},
   txByHash : {FALSE}]

\* the answers that may differ from one request to the next
\* a request that failed: the kind of error _rpcCall throws
Rejected(kind) == [ok |-> FALSE, v |-> 0, err |-> kind]
ErrorKinds == {"invalid request", "timeout"}
\* a result that is not a string starting with 0x
NotHex == [ok |-> TRUE, v |-> NULL]
\* typeof hex === "string" && hex.startsWith("0x")
IsHexString(ans) == ans.v # NULL
ChainIdAnswers == {Fail, NotHex, Ok(168)}
TxCountAnswers == {Rejected(k) : k \in ErrorKinds} \cup {Ok(n) : n \in TxCounts}
ProbeAnswers == {Fail, Ok(0)}
\* the hash of a transaction, told apart by its nonce and the invocation that signed it
TxHash(c) == <<calls[c].nonce, c>>
SendAnswers(c) ==
  {[ok |-> FALSE, err |-> e, hash |-> <<>>] : e \in {"underpriced", "rejected"}}
  \cup {[ok |-> TRUE, err |-> "none", hash |-> TxHash(c)]}

(***************************************************************************)
(* The ledger's entries and the read operations' values.                   *)
(***************************************************************************)
\* the strategy labels an entry can carry
Labels == {"A", " A ", "B"}

\* String(x || "").trim() of a label
TrimLabel(l) == IF l = " A " THEN "A" ELSE l

\* the ids of an account that has posted len entries, oldest first
Ids(len) == [k \in 1..len |-> k]

\* the id lists the account can have at the start
Ledgers == UNION {[1..len -> {"A", "B"}] : len \in 0..MaxIds} \cup {<<"A", " A ", "B">>}

\* the arguments of getRecentSignalsForStrategy that are explored
ReadRequests ==
  {[strategyName |-> "A", n |-> 3], [strategyName |-> "A", n |-> 1],
   [strategyName |-> " A ", n |-> 2], [strategyName |-> "A", n |-> 0],
   [strategyName |-> "", n |-> 3]}

\* the two invocations: a first one and one repeated after it
Readers == {"first", "repeat"}

\* this._traderSignalIdsCache.has(t) is false
NoIds == [has |-> FALSE, ids |-> <<>>]

NoRequest == [strategyName |-> "", n |-> 0]

\* an invocation of getRecentSignalsForStrategy that has not been made yet
IdleRead ==
  [pc |-> "idle", req |-> NoRequest, strategy |-> "", want |-> 0, nIds |-> 0, i |-> 0,
   out |-> <<>>, result |-> <<>>, err |-> "none", code |-> 0, usedRpc |-> FALSE,
   reqId |-> 0, timer |-> FALSE, after |-> FALSE]

\* the state after construction, before the first postSignal
FreshPost ==
  /\ nextNonce = NULL
  /\ supports1559 = "null"
  /\ remoteChainId = NULL
  /\ calls = [c \in Calls |-> IdleCall]
  /\ allocLog = <<>>
  /\ firstCount = NULL
  /\ firstShape = NULL
  /\ overlap = FALSE

\* the state after construction, before the first read
FreshRead ==
  /\ idsCache = NoIds
  /\ sigCache = {}
  /\ reads = [r \in Readers |-> IdleRead]
  /\ rpcId = 1

\* no polling loop has been entered
IdlePoll ==
  [kind |-> "none", pc |-> "idle", attempts |-> 0, timeout |-> 0, pollTicks |-> 0,
   i |-> 0, elapsed |-> 0, result |-> "none"]

FreshWait == poll = IdlePoll /\ timedOut = {}

\* runOnce has not been called
IdleRun ==
  [pc |-> "idle", runType |-> "", forceSend |-> FALSE, nSignalsFeedback |-> 0,
   showProgress |-> FALSE, dataOk |-> {}, chain |-> FALSE, strategy |-> 0,
   timer |-> FALSE, ticks |-> 0, decided |-> {}, logged |-> {}, posted |-> {},
   broadcast |-> {}, chainErrors |-> {}, outcome |-> "none"]

\* tidyExplanation has not been called
IdleTidy == [pc |-> "idle", text |-> <<>>, out |-> <<>>, err |-> "none"]

\* no decision has been encoded
IdleCodec ==
  [pc |-> "idle", signal |-> "", chainAsset |-> "", asset |-> "", target |-> "",
   storedAsset |-> "", storedTarget |-> NULL, readBack |-> ""]

\* postWithRetry has not been called
IdleRetry ==
  [pc |-> "idle", retries |-> 0, attempt |-> 0, attempts |-> 0, lastErr |-> NULL,
   seen |-> <<>>, thrown |-> NULL]

FreshApp == run = IdleRun /\ tidy = IdleTidy /\ codec = IdleCodec /\ retry = IdleRetry

Fresh == FreshPost /\ FreshRead /\ FreshWait /\ FreshApp /\ ledger = <<>>

Init == cfg \in RaceConfigs /\ endpoint \in RaceEndpoints /\ Fresh

InitOne == cfg \in Configs /\ endpoint \in Endpoints /\ Fresh

InitSeq == cfg \in SeqConfigs /\ endpoint \in SeqEndpoints /\ Fresh

(***************************************************************************)
(* The code of postSignal between two suspension points, as functions of   *)
(* a world w: the invocation's record w.rec and the client fields.         *)
(***************************************************************************)
World(c) ==
  [rec |-> calls[c], nextNonce |-> nextNonce, supports1559 |-> supports1559,
   remoteChainId |-> remoteChainId, allocLog |-> allocLog, firstCount |-> firstCount,
   firstShape |-> firstShape]

\* _rpcCall(method, params): the request leaves and the invocation is suspended
Issue(w, method) ==
  [w EXCEPT !.rec.pc = method,
            !.rec.usedRpc = TRUE,
            !.rec.nSend = IF method = "rpc_send" THEN @ + 1 ELSE @]

\* the locals of an invocation that has returned or thrown are gone
DropLocals(rec) ==
  [rec EXCEPT !.rung = 0, !.targetEnum = NULL, !.chainId = NULL, !.nonce = NULL,
              !.gasLimit = NULL, !.valueWei = NULL, !.type = NULL, !.gasPrice = NULL,
              !.maxFeePerGas = NULL, !.maxPriorityFeePerGas = NULL]

\* Throw that hands the invocation's nonce back to the cursor
ThrowReturnsNonce(w, e) ==
  [w EXCEPT !.rec = [DropLocals(w.rec) EXCEPT !.pc = "failed", !.err = e],
            !.nextNonce = IF w.rec.nonce # NULL THEN w.rec.nonce ELSE @]

\* an error propagates out of postSignal
Throw(w, e) == [w EXCEPT !.rec = [DropLocals(w.rec) EXCEPT !.pc = "failed", !.err = e]]

\* const rawTx = await this.wallet.signTransaction(txReq); then eth_sendRawTransaction
SignAndSend(w) == Issue(w, "rpc_send")

\* ethers.parseUnits(String(this.maxGasPriceGwei), "gwei")
maxWei == ParseUnitsGwei(cfg.maxGasPriceGwei)

\* SendSucceeded that goes on to poll for the receipt
SendSucceededPolls(w, txHash) == Issue(w, "rpc_receipt")

\* the result object postSignal returns after a successful send
SendSucceeded(w, txHash) ==
  LET r == w.rec
      ret(status) ==
        [w EXCEPT !.rec = [DropLocals(r) EXCEPT
           !.pc = "done",
           !.result = [txHash |-> txHash, status |-> status,
                       nonce |-> r.nonce, chainId |-> r.chainId]]]
  IN  \* this.waitForReceipt is the method of that name, so !this.waitForReceipt is false
      IF ReceiptTimeoutSec <= 0 THEN ret("broadcast")
      ELSE Issue(w, "rpc_receipt")

\* SendFailed that sends the transaction again
SendFailedRetry(w, e) == Issue(w, "rpc_send")

\* eth_sendRawTransaction failed: the error leaves postSignal
SendFailed(w, e) == Throw(w, e)

AfterSend(w, ans) == IF ans.ok THEN SendSucceeded(w, ans.hash) ELSE SendFailed(w, ans.err)

\* LegacyTx that declares the gas price as a fee cap too
LegacyTxWithFeeCap(w, gasPrice) ==
  SignAndSend([w EXCEPT !.rec.gasPrice = gasPrice, !.rec.maxFeePerGas = gasPrice])

\* the legacy branch of postSignal: txReq.gasPrice = gasPrice
LegacyTx(w, gasPrice) == SignAndSend([w EXCEPT !.rec.gasPrice = gasPrice])

\* the EIP-1559 branch of postSignal
PrioGwei == IF priorityFeeGwei > 0 THEN priorityFeeGwei ELSE DefaultPrioGwei
\* FeeMarketTx that declares the priority fee as configured
FeeMarketTxPrioAsConfigured(w, baseFee) ==
  LET maxPriorityFeePerGas == ParseUnitsGwei(PrioGwei)
      maxFeePerGas == baseFee + maxPriorityFeePerGas
  IN  SignAndSend([w EXCEPT !.rec.type = 2,
                            !.rec.maxFeePerGas = clampBigInt(maxFeePerGas, 1, maxWei),
                            !.rec.maxPriorityFeePerGas = maxPriorityFeePerGas])

FeeMarketTx(w, baseFee) ==
  LET maxPriorityFeePerGas == ParseUnitsGwei(PrioGwei)
      maxFeePerGas == baseFee + maxPriorityFeePerGas
      declaredMax == clampBigInt(maxFeePerGas, 1, maxWei)
  IN  SignAndSend([w EXCEPT !.rec.type = 2,
                            !.rec.maxFeePerGas = declaredMax,
                            !.rec.maxPriorityFeePerGas =
                               clampBigInt(maxPriorityFeePerGas, 1, declaredMax)])

\* _chooseBaseGasPriceWei, the part after eth_gasPrice has answered
BumpedGasPrice(suggested) ==
  LET scaled == Max(1, RoundPermille(cfg.gasPriceMultiplier))
      bumped == (suggested * scaled) \div 1000
  IN  clampBigInt(bumped, 1, maxWei)

\* _chooseBaseGasPriceWei up to its first await
ChooseBaseGasPriceWei(w) ==
  IF cfg.gasPriceGwei > 0
    THEN LegacyTx(w, clampBigInt(ParseUnitsGwei(cfg.gasPriceGwei), 1, maxWei))
    ELSE Issue(w, "rpc_gasPrice")

\* if (supports1559) { ... _getBaseFeeWei ... } else { ... _chooseBaseGasPriceWei ... }
FeeBranch(w, supports) ==
  IF supports THEN Issue(w, "rpc_feeHistory") ELSE ChooseBaseGasPriceWei(w)

\* DetectSupports1559 that probes the endpoint whatever CHAIN_TX_TYPE says
DetectSupports1559IgnoresOverride(w) ==
  IF w.supports1559 # "null" THEN FeeBranch(w, w.supports1559 = "true")
  ELSE Issue(w, "rpc_probe1559")

\* _detectSupports1559 up to its first await
DetectSupports1559(w) ==
  IF w.supports1559 # "null" THEN FeeBranch(w, w.supports1559 = "true")
  ELSE IF cfg.txTypePref = "legacy" THEN FeeBranch([w EXCEPT !.supports1559 = "false"], FALSE)
  ELSE IF cfg.txTypePref = "eip1559" THEN FeeBranch([w EXCEPT !.supports1559 = "true"], TRUE)
  ELSE Issue(w, "rpc_probe1559")

\* the probe answered: success means fee-market, any failure legacy
AfterProbe1559(w, ans) ==
  FeeBranch([w EXCEPT !.supports1559 = IF ans.ok THEN "true" ELSE "false"], ans.ok)

\* _getBaseFeeWei answered: the base fee, or null and then _getSuggestedGasPriceWei
AfterFeeHistory(w, ans) ==
  IF ans.ok THEN FeeMarketTx(w, ans.v) ELSE Issue(w, "rpc_baseGasPrice")

\* eth_gasPrice answered inside _chooseBaseGasPriceWei
AfterGasPrice(w, ans) ==
  IF ans.ok THEN LegacyTx(w, BumpedGasPrice(ans.v)) ELSE Throw(w, "rpc")

\* eth_gasPrice answered as the substitute for the base fee
AfterBaseGasPrice(w, ans) ==
  IF ans.ok THEN FeeMarketTx(w, ans.v) ELSE Throw(w, "rpc")

\* the postFee eth_call answered (best effort), then _detectSupports1559
AfterPostFee(w, ans) ==
  DetectSupports1559([w EXCEPT !.rec.valueWei = IF ans.ok THEN ans.v ELSE 0])

\* AfterEstimateGas that lets a failed estimate leave postSignal
AfterEstimateGasAborts(w, ans) ==
  IF ans.ok /\ IsHexString(ans)
    THEN Issue([w EXCEPT !.rec.gasLimit = (ans.v * GasBufferNum) \div GasBufferDen],
               "rpc_postFee")
    ELSE Throw(w, "rpc")

\* _estimateGas answered; gasLimit with the +22% buffer; then the postFee eth_call
AfterEstimateGas(w, ans) ==
  LET gasEstimate == IF ans.ok /\ IsHexString(ans) THEN ans.v ELSE FallbackGasEstimate
  IN  Issue([w EXCEPT !.rec.gasLimit = (gasEstimate * GasBufferNum) \div GasBufferDen],
            "rpc_postFee")

\* CursorAfter that leaves the cursor on the nonce just returned
CursorAfterStuck(n) == n

\* this._nextNonce = n + 1n
CursorAfter(n) == n + 1

\* NeedsCountQuery that asks the endpoint on every allocation
NeedsCountQueryAlways(cursor) == TRUE

\* if (this._nextNonce === null)
NeedsCountQuery(cursor) == cursor = NULL

\* _allocNonce returns n; postSignal goes on to _estimateGas
Allocated(w, n) ==
  Issue([w EXCEPT !.nextNonce = CursorAfter(n),
                  !.rec.rung = 0,
                  !.rec.nonce = n,
                  !.allocLog = Append(@, n)],
        "rpc_estimateGas")

\* _allocNonce up to its first await
AllocNonce(w) ==
  IF NeedsCountQuery(w.nextNonce)
    THEN Issue([w EXCEPT !.rec.rung = 1], "rpc_txCount")
    ELSE Allocated(w, w.nextNonce)

\* AfterTxCount that gives up when the first request shape is rejected
AfterTxCountNoLadder(w, ans) ==
  IF ans.ok
    THEN Allocated([w EXCEPT !.firstCount = IF @ = NULL THEN ans.v ELSE @,
                             !.firstShape = IF @ = NULL THEN w.rec.rung ELSE @], ans.v)
    ELSE Throw(w, "rpc")

\* AfterTxCount that takes the count to be zero when every request shape fails
AfterTxCountAssumesZero(w, ans) ==
  IF ans.ok
    THEN Allocated([w EXCEPT !.firstCount = IF @ = NULL THEN ans.v ELSE @,
                             !.firstShape = IF @ = NULL THEN w.rec.rung ELSE @], ans.v)
    ELSE IF w.rec.rung < TxCountShapes
      THEN Issue([w EXCEPT !.rec.rung = @ + 1], "rpc_txCount")
      ELSE Allocated(w, 0)

\* _getTransactionCount: one request shape answered
AfterTxCount(w, ans) ==
  IF ans.ok
    THEN Allocated([w EXCEPT !.firstCount = IF @ = NULL THEN ans.v ELSE @,
                             !.firstShape = IF @ = NULL THEN w.rec.rung ELSE @], ans.v)
    ELSE IF w.rec.rung < TxCountShapes
      THEN Issue([w EXCEPT !.rec.rung = @ + 1], "rpc_txCount")
      ELSE Throw(w, ans.err)

\* _getChainId / _getRemoteChainId up to the first await
GetChainId(w) ==
  IF cfg.chainId > 0 THEN AllocNonce([w EXCEPT !.rec.chainId = cfg.chainId])
  ELSE IF w.remoteChainId # NULL THEN AllocNonce([w EXCEPT !.rec.chainId = w.remoteChainId])
  ELSE Issue(w, "rpc_chainId")

\* AfterChainId that returns the configured value on a failure without caching it
AfterChainIdFallbackNotCached(w, ans) ==
  IF ans.ok /\ IsHexString(ans)
    THEN AllocNonce([w EXCEPT !.remoteChainId = ans.v, !.rec.chainId = ans.v])
    ELSE AllocNonce([w EXCEPT !.rec.chainId = cfg.chainId])

\* eth_chainId answered: the hex result, or the configured value on any failure
AfterChainId(w, ans) ==
  LET id == IF ans.ok /\ IsHexString(ans) THEN ans.v ELSE cfg.chainId
  IN  AllocNonce([w EXCEPT !.remoteChainId = id, !.rec.chainId = id])

\* StartCall that takes a nonce from the cursor before it validates
StartCallAllocatesFirst(w, req) ==
  LET e == ValidationError(req)
  IN  IF e # "none"
        THEN Throw([w EXCEPT !.nextNonce = IF @ = NULL THEN @ ELSE CursorAfter(@)], e)
      ELSE GetChainId([w EXCEPT !.rec.targetEnum = TargetEnumOf(req.target).v])

\* postSignal from its entry to its first suspension
StartCall(w, req) ==
  LET e == ValidationError(req)
  IN  IF e # "none" THEN Throw(w, e)
      ELSE GetChainId([w EXCEPT !.rec.targetEnum = TargetEnumOf(req.target).v])

(***************************************************************************)
(* Actions.                                                                *)
(***************************************************************************)
Apply(c, w) ==
  LET overlaps == /\ w.rec.pc = "rpc_txCount"
                  /\ calls[c].pc # "rpc_txCount"
                  /\ \E d \in Calls \ {c} : calls[d].pc = "rpc_txCount"
      concurrent == /\ calls[c].pc = "idle"
                    /\ \E d \in Calls \ {c} : calls[d].pc \notin {"idle", "done", "failed"}
  IN  /\ calls' = [calls EXCEPT ![c] = w.rec]
      /\ nextNonce' = w.nextNonce
      /\ supports1559' = w.supports1559
      /\ remoteChainId' = w.remoteChainId
      /\ overlap' = (overlap \/ overlaps)
      /\ allocLog' = IF overlap' THEN <<>> ELSE w.allocLog
      /\ firstCount' = IF overlap' THEN NULL ELSE w.firstCount
      /\ firstShape' = IF concurrent \/ firstShape = 0 THEN 0 ELSE w.firstShape
      /\ UNCHANGED <<cfg, endpoint>>
      /\ UNCHANGED readVars
      /\ UNCHANGED waitVars
      /\ UNCHANGED appVars

\* postSignal(req) is called; invocations are numbered in call order
Start(c, req) ==
  /\ calls[c].pc = "idle"
  /\ \A d \in 1..(c - 1) : calls[d].pc # "idle"
  /\ Apply(c, StartCall(World(c), req))

RespChainId(c) ==
  /\ calls[c].pc = "rpc_chainId"
  /\ \E ans \in ChainIdAnswers : Apply(c, AfterChainId(World(c), ans))

RespTxCount(c) ==
  /\ calls[c].pc = "rpc_txCount"
  /\ \E ans \in TxCountAnswers : Apply(c, AfterTxCount(World(c), ans))

RespEstimateGas(c) ==
  /\ calls[c].pc = "rpc_estimateGas"
  /\ Apply(c, AfterEstimateGas(World(c), endpoint.estimateGas))

RespPostFee(c) ==
  /\ calls[c].pc = "rpc_postFee"
  /\ Apply(c, AfterPostFee(World(c), endpoint.postFee))

RespProbe1559(c) ==
  /\ calls[c].pc = "rpc_probe1559"
  /\ \E ans \in ProbeAnswers : Apply(c, AfterProbe1559(World(c), ans))

RespFeeHistory(c) ==
  /\ calls[c].pc = "rpc_feeHistory"
  /\ Apply(c, AfterFeeHistory(World(c), endpoint.baseFee))

RespGasPrice(c) ==
  /\ calls[c].pc = "rpc_gasPrice"
  /\ Apply(c, AfterGasPrice(World(c), endpoint.gasPrice))

RespBaseGasPrice(c) ==
  /\ calls[c].pc = "rpc_baseGasPrice"
  /\ Apply(c, AfterBaseGasPrice(World(c), endpoint.gasPrice))

RespSend(c) ==
  /\ calls[c].pc = "rpc_send"
  /\ \E ans \in SendAnswers(c) : Apply(c, AfterSend(World(c), ans))

Next ==
  \E c \in Calls :
    \/ \E req \in CallerRequests : Start(c, req)
    \/ RespChainId(c)
    \/ RespTxCount(c)
    \/ RespEstimateGas(c)
    \/ RespPostFee(c)
    \/ RespProbe1559(c)
    \/ RespFeeHistory(c)
    \/ RespGasPrice(c)
    \/ RespBaseGasPrice(c)
    \/ RespSend(c)

Spec == Init /\ [][Next]_vars

(***************************************************************************)
(* One invocation on a fresh client, under every configuration and every   *)
(* set of endpoint answers the model draws from.                           *)
(***************************************************************************)
NextOne ==
  \/ \E req \in Requests : Start(1, req)
  \/ RespChainId(1)
  \/ RespTxCount(1)
  \/ RespEstimateGas(1)
  \/ RespPostFee(1)
  \/ RespProbe1559(1)
  \/ RespFeeHistory(1)
  \/ RespGasPrice(1)
  \/ RespBaseGasPrice(1)
  \/ RespSend(1)

SpecOne == InitOne /\ [][NextOne]_vars

(***************************************************************************)
(* Invocations that follow one another on one client, as runOnce makes     *)
(* them when none is abandoned: each begins after the one before it ended. *)
(***************************************************************************)
StartSeq(c, req) ==
  /\ \A d \in 1..(c - 1) : calls[d].pc \in {"done", "failed"}
  /\ Start(c, req)

NextSeq ==
  \E c \in Calls :
    \/ \E req \in CallerRequests : StartSeq(c, req)
    \/ RespChainId(c)
    \/ RespTxCount(c)
    \/ RespEstimateGas(c)
    \/ RespPostFee(c)
    \/ RespProbe1559(c)
    \/ RespFeeHistory(c)
    \/ RespGasPrice(c)
    \/ RespBaseGasPrice(c)
    \/ RespSend(c)

SpecSeq == InitSeq /\ [][NextSeq]_vars

(***************************************************************************)
(* The transport: what _rpcCall makes of the endpoint's response.          *)
(***************************************************************************)
\* a response: how fetch settled, what the body parses to, its error member
Response(fetch, body, error, code) ==
  [fetch |-> fetch, body |-> body, error |-> error, code |-> code]

Responses ==
  {Response("abort", "object", "absent", 0),
   Response("error", "object", "absent", 0),
   Response("ok", "notjson", "absent", 0),
   Response("ok", "null", "absent", 0),
   Response("ok", "object", "object", -32600),
   Response("ok", "object", "object", -32000),
   Response("ok", "object", "null", 0),
   Response("ok", "object", "absent", 0)}

\* _rpcCall throws an error
Thrown(err, code) == [ok |-> FALSE, err |-> err, code |-> code]
\* _rpcCall returns json.result
Returned == [ok |-> TRUE, err |-> "none", code |-> 0]

\* _rpcCall from the moment fetch settles
RpcCallOutcome(resp) ==
  IF resp.fetch = "abort" THEN Thrown("timed out", 0)
  ELSE IF resp.fetch # "ok" THEN Thrown("failed", 0)
  ELSE IF resp.body = "notjson" THEN Thrown("non-JSON response", 0)
  ELSE IF resp.body = "object" /\ resp.error = "object" THEN Thrown("rpc error", resp.code)
  ELSE IF resp.body = "null" THEN Thrown("TypeError", 0)
  ELSE Returned

(***************************************************************************)
(* The ledger read cache: getRecentSignalsForStrategy between two          *)
(* suspension points, as functions of a world w.                           *)
(***************************************************************************)
ReadWorld(r) ==
  [rd |-> reads[r], idsCache |-> idsCache, sigCache |-> sigCache, rpcId |-> rpcId,
   ledger |-> ledger]

\* RpcCall that leaves the id counter where it is
RpcCallSameId(w, method) ==
  [w EXCEPT !.rd.pc = method, !.rd.usedRpc = TRUE, !.rd.reqId = w.rpcId, !.rd.timer = TRUE]

\* _rpcCall: the payload takes this._rpcId++, the timeout timer is set, fetch begins
RpcCall(w, method) ==
  [w EXCEPT !.rd.pc = method, !.rd.usedRpc = TRUE, !.rd.reqId = w.rpcId,
            !.rd.timer = TRUE, !.rpcId = @ + 1]

\* finally { clearTimeout(t) }; the request's payload is gone with the call
Settled(w) == [w EXCEPT !.rd.timer = FALSE, !.rd.reqId = 0]

\* the locals of a read that has returned or thrown are gone
DropReadLocals(rd) == [rd EXCEPT !.strategy = "", !.want = 0, !.nIds = 0, !.i = 0, !.out = <<>>]

ReadReturn(w, seq) ==
  [w EXCEPT !.rd = [DropReadLocals(w.rd) EXCEPT !.pc = "done", !.result = seq]]

ReadThrow(w, outcome) ==
  [w EXCEPT !.rd = [DropReadLocals(w.rd) EXCEPT
                      !.pc = "failed", !.err = outcome.err, !.code = outcome.code]]

\* out.reverse()
RECURSIVE Reverse(_)
Reverse(seq) == IF seq = <<>> THEN <<>> ELSE Append(Reverse(Tail(seq)), Head(seq))

VisitUntrimmed(w) ==
  LET id == Ids(w.rd.nIds)[w.rd.i]
  IN  [w EXCEPT !.rd.out = IF w.ledger[id] = w.rd.strategy THEN Append(@, id) ELSE @,
                !.rd.i = @ - 1]

\* one turn of the loop with the entry ids[i] at hand: keep it if its label matches
Visit(w) ==
  LET id == Ids(w.rd.nIds)[w.rd.i]
  IN  [w EXCEPT !.rd.out = IF TrimLabel(w.ledger[id]) = w.rd.strategy
                             THEN Append(@, id) ELSE @,
                !.rd.i = @ - 1]

RECURSIVE WalkFrom(_)
WalkFromNoStop(w) ==
  IF w.rd.i >= 1
    THEN IF Ids(w.rd.nIds)[w.rd.i] \in w.sigCache
           THEN WalkFrom(Visit(w))
           ELSE RpcCall(w, "rpc_getSignal")
    ELSE ReadReturn(w, Reverse(w.rd.out))

\* the loop of getRecentSignalsForStrategy, up to a getSignalById that is not cached
WalkFrom(w) ==
  IF w.rd.i >= 1 /\ Len(w.rd.out) < w.rd.want
    THEN IF Ids(w.rd.nIds)[w.rd.i] \in w.sigCache
           THEN WalkFrom(Visit(w))
           ELSE RpcCall(w, "rpc_getSignal")
    ELSE ReadReturn(w, Reverse(w.rd.out))

\* getTraderSignalIds has returned ids
WithIds(w, ids) ==
  IF Len(ids) = 0 THEN ReadReturn(w, <<>>)
  ELSE WalkFrom([w EXCEPT !.rd.nIds = Len(ids), !.rd.i = Len(ids), !.rd.out = <<>>])

\* getRecentSignalsForStrategy from its entry to its first suspension
StartReadCall(w, req) ==
  LET want == Max(0, req.n)
      strategy == TrimLabel(req.strategyName)
      w1 == [w EXCEPT !.rd.req = req, !.rd.want = want, !.rd.strategy = strategy]
  IN  IF want = 0 THEN ReadReturn(w1, <<>>)
      ELSE IF strategy = "" THEN ReadReturn(w1, <<>>)
      ELSE IF w.idsCache.has THEN WithIds(w1, w.idsCache.ids)
      ELSE RpcCall(w1, "rpc_getIds")

AfterIdsNotCached(w, resp) ==
  LET o == RpcCallOutcome(resp)
  IN  IF o.ok THEN WithIds(Settled(w), Ids(Len(w.ledger))) ELSE ReadThrow(Settled(w), o)

\* the eth_call of getTraderSignalIds answered
AfterIds(w, resp) ==
  LET o == RpcCallOutcome(resp)
      ids == Ids(Len(w.ledger))
  IN  IF o.ok
        THEN WithIds([Settled(w) EXCEPT !.idsCache = [has |-> TRUE, ids |-> ids]], ids)
        ELSE ReadThrow(Settled(w), o)

\* the eth_call of getSignalById answered
AfterSignal(w, resp) ==
  LET o == RpcCallOutcome(resp)
      id == Ids(w.rd.nIds)[w.rd.i]
  IN  IF o.ok
        THEN WalkFrom(Visit([Settled(w) EXCEPT !.sigCache = @ \cup {id}]))
        ELSE ReadThrow(Settled(w), o)

ApplyRead(r, w) ==
  /\ reads' = [reads EXCEPT ![r] = w.rd]
  /\ idsCache' = w.idsCache
  /\ sigCache' = w.sigCache
  /\ rpcId' = w.rpcId
  /\ UNCHANGED <<cfg, endpoint, ledger>>
  /\ UNCHANGED postVars
  /\ UNCHANGED waitVars
  /\ UNCHANGED appVars

\* the other invocations have all returned or thrown
AfterOthers(r) == \A q \in Readers \ {r} : reads[q].pc \in {"done", "failed"}

\* getRecentSignalsForStrategy(req) is called
StartRead(r, req) ==
  /\ reads[r].pc = "idle"
  /\ ApplyRead(r, StartReadCall([ReadWorld(r) EXCEPT !.rd.after = AfterOthers(r)], req))

RespIds(r) ==
  /\ reads[r].pc = "rpc_getIds"
  /\ \E resp \in Responses : ApplyRead(r, AfterIds(ReadWorld(r), resp))

RespSignal(r) ==
  /\ reads[r].pc = "rpc_getSignal"
  /\ \E resp \in Responses : ApplyRead(r, AfterSignal(ReadWorld(r), resp))

\* an entry of the account is posted to the ledger
LedgerPost ==
  /\ Len(ledger) < MaxIds
  /\ \E l \in {"A", "B"} : ledger' = Append(ledger, l)
  /\ UNCHANGED <<cfg, endpoint, idsCache, sigCache, reads, rpcId>>
  /\ UNCHANGED postVars
  /\ UNCHANGED waitVars
  /\ UNCHANGED appVars

\* the endpoint and configuration under which the reads are explored
ReadEndpoint == CHOOSE e \in RaceEndpoints : e.baseFee.ok
ReadConfig == CHOOSE c \in RaceConfigs : TRUE

(***************************************************************************)
(* Reads that follow one another, as runOnce makes them.                   *)
(***************************************************************************)
InitRead ==
  /\ cfg = ReadConfig /\ endpoint = ReadEndpoint
  /\ FreshPost /\ FreshRead /\ FreshWait /\ FreshApp
  /\ ledger \in Ledgers

StartReadSeq(r, req) ==
  /\ r = "repeat" => AfterOthers(r)
  /\ StartRead(r, req)

NextRead ==
  \/ \E r \in Readers :
       \/ \E req \in ReadRequests : StartReadSeq(r, req)
       \/ RespIds(r)
       \/ RespSignal(r)
  \/ LedgerPost

SpecRead == InitRead /\ [][NextRead]_vars

(***************************************************************************)
(* Reads that overlap.                                                     *)
(***************************************************************************)
\* the requests made while the reads overlap
RaceRequests == {[strategyName |-> "A", n |-> 2], [strategyName |-> "A", n |-> 1]}

RaceLedgers == {[k \in 1..(MaxIds - 2) |-> IF k % 2 = 1 THEN "A" ELSE "B"]}

InitReadRace ==
  /\ cfg = ReadConfig /\ endpoint = ReadEndpoint
  /\ FreshPost /\ FreshRead /\ FreshWait /\ FreshApp
  /\ ledger \in RaceLedgers

NextReadRace ==
  \/ \E r \in Readers :
       \/ \E req \in RaceRequests : StartRead(r, req)
       \/ RespIds(r)
       \/ RespSignal(r)
  \/ LedgerPost

SpecReadRace == InitReadRace /\ [][NextReadRace]_vars

(***************************************************************************)
(* The polling loops: _waitForTxInNode, _waitForPendingNonceBump,          *)
(* waitForReceipt and the receipt loop of postSignal.  Time is counted in  *)
(* ticks of the loop's timer; a sleep lasts at least one tick.             *)
(***************************************************************************)
AttemptPolls == {"txInNode", "nonceBump"}
ReceiptPolls == {"waitForReceipt", "postSignalReceipt"}
PollKinds == AttemptPolls \cup ReceiptPolls

\* timeoutMs = Math.max(1_000, ...) and pollMs = Math.max(500, ...), in ticks of 500 ms
MinReceiptTimeout == 2
MinReceiptPoll == 1

\* what a lookup of the loop can come back with
LookupAnswers == {"found", "notfound", "error"}

\* the loop returns
PollReturn(p, value) == [p EXCEPT !.pc = "returned", !.result = value]

\* an error leaves the loop
PollThrow(p) == [p EXCEPT !.pc = "threw", !.result = "error"]

\* what the loop returns when it gives up
GivesUp(kind) ==
  IF kind = "txInNode" THEN "null"
  ELSE IF kind = "nonceBump" THEN "false"
  ELSE IF kind = "waitForReceipt" THEN "null"
  ELSE "pending"

\* what the loop returns when the lookup finds what it waits for
Finds(kind) ==
  IF kind = "txInNode" THEN "tx"
  ELSE IF kind = "nonceBump" THEN "true"
  ELSE "receipt"

\* the loop condition: i < attempts, or Date.now() - start < timeoutMs
LoopHead(p) ==
  IF p.kind \in AttemptPolls
    THEN IF p.i < p.attempts THEN [p EXCEPT !.pc = "rpc"] ELSE PollReturn(p, GivesUp(p.kind))
    ELSE IF p.elapsed < p.timeout THEN [p EXCEPT !.pc = "rpc"]
         ELSE PollReturn(p, GivesUp(p.kind))

\* the lookup of one round has settled (for _waitForPendingNonceBump: _getNonce)
AfterLookup(p, ans) ==
  IF ans = "found" THEN PollReturn(p, Finds(p.kind))
  ELSE IF ans = "error" /\ p.kind \in {"txInNode", "waitForReceipt"} THEN PollThrow(p)
  ELSE [p EXCEPT !.pc = "sleep"]

\* AfterSleep that neither counts the round nor lets time pass
AfterSleepStuck(p, late) == LoopHead(p)

\* await this._sleep(...) is over: the next round; late is what the round took
\* beyond the sleep
AfterSleep(p, late) ==
  LoopHead(IF p.kind \in AttemptPolls
             THEN [p EXCEPT !.i = @ + 1]
             ELSE [p EXCEPT !.elapsed = Min(p.timeout, @ + Max(1, p.pollTicks) + late)])

\* the loop is entered with its options
EnterPoll(kind, attempts, timeout, pollTicks) ==
  LoopHead([IdlePoll EXCEPT
              !.kind = kind,
              !.attempts = IF kind \in AttemptPolls THEN attempts ELSE 0,
              !.timeout = IF kind = "postSignalReceipt" THEN Max(MinReceiptTimeout, timeout)
                          ELSE IF kind = "waitForReceipt" THEN timeout ELSE 0,
              !.pollTicks = IF kind = "postSignalReceipt" THEN Max(MinReceiptPoll, pollTicks)
                            ELSE IF kind = "waitForReceipt" THEN pollTicks ELSE 0])

StartPoll ==
  /\ poll.pc = "idle"
  /\ \E kind \in PollKinds, attempts \in 0..MaxAttempts, timeout \in 0..MaxTimeout,
        pollTicks \in 0..2 :
       poll' = EnterPoll(kind, attempts, timeout, pollTicks)
  /\ UNCHANGED <<cfg, endpoint, timedOut>>
  /\ UNCHANGED appVars
  /\ UNCHANGED postVars
  /\ UNCHANGED readVars

RespLookup ==
  /\ poll.pc = "rpc"
  /\ \E ans \in LookupAnswers : poll' = AfterLookup(poll, ans)
  /\ UNCHANGED <<cfg, endpoint, timedOut>>
  /\ UNCHANGED appVars
  /\ UNCHANGED postVars
  /\ UNCHANGED readVars

Wake ==
  /\ poll.pc = "sleep"
  /\ \E late \in 0..1 : poll' = AfterSleep(poll, late)
  /\ UNCHANGED <<cfg, endpoint, timedOut>>
  /\ UNCHANGED appVars
  /\ UNCHANGED postVars
  /\ UNCHANGED readVars

\* a caller whose loop has ended enters another one
PollAgain ==
  /\ poll.pc \in {"returned", "threw"}
  /\ poll' = IdlePoll
  /\ UNCHANGED <<cfg, endpoint, timedOut>>
  /\ UNCHANGED appVars
  /\ UNCHANGED postVars
  /\ UNCHANGED readVars

InitPoll == cfg = ReadConfig /\ endpoint = ReadEndpoint /\ Fresh

NextPoll == StartPoll \/ RespLookup \/ Wake \/ PollAgain

\* every lookup settles (the transport's timeout) and every sleep ends (the timer)
SpecPoll == InitPoll /\ [][NextPoll]_vars /\ WF_vars(RespLookup) /\ WF_vars(Wake)

(***************************************************************************)
(* runOnce races postSignal against its send timeout and goes on to the    *)
(* next strategy when either settles.                                      *)
(***************************************************************************)
\* the send timeout of invocation c fires before postSignal has settled
SendTimeout(c) ==
  /\ calls[c].pc \notin {"idle", "done", "failed"}
  /\ c \notin timedOut
  /\ timedOut' = timedOut \cup {c}
  /\ UNCHANGED <<cfg, endpoint, poll>>
  /\ UNCHANGED appVars
  /\ UNCHANGED postVars
  /\ UNCHANGED readVars

\* runOnce's await on the race of invocation d has settled
RaceSettled(d) == calls[d].pc \in {"done", "failed"} \/ d \in timedOut

StartAfterRace(c, req) ==
  /\ \A d \in 1..(c - 1) : RaceSettled(d)
  /\ Start(c, req)

InitAbandon == cfg \in RaceConfigs /\ endpoint \in RaceEndpoints /\ Fresh

NextAbandon ==
  \E c \in Calls :
    \/ \E req \in CallerRequests : StartAfterRace(c, req)
    \/ SendTimeout(c)
    \/ RespChainId(c)
    \/ RespTxCount(c)
    \/ RespEstimateGas(c)
    \/ RespPostFee(c)
    \/ RespProbe1559(c)
    \/ RespFeeHistory(c)
    \/ RespGasPrice(c)
    \/ RespBaseGasPrice(c)
    \/ RespSend(c)

SpecAbandon == InitAbandon /\ [][NextAbandon]_vars

(***************************************************************************)
(* What runOnce reports of the object tx that postSignal returned.         *)
(***************************************************************************)
\* tx[f], or undef when the object has no such property
Field(tx, f, undef) == IF f \in DOMAIN tx THEN tx[f] ELSE undef

\* the hash runOnce prints and links: tx.hash
ReportedHash(tx) == Field(tx, "hash", <<>>)

\* txUrl(hash): "" for a missing hash
txUrl(hash) == IF hash = <<>> THEN <<>> ELSE <<"explorer/tx", hash>>

\* RunOnceOutcome that takes the presence of a hash for success
RunOnceOutcomeHashIsSuccess(tx) ==
  IF Field(tx, "txHash", <<>>) # <<>> THEN "mined-success" ELSE "unconfirmed"

\* the branch of runOnce's report: mined (SUCCESS / REVERT), broadcast, unconfirmed
RunOnceOutcome(tx) ==
  LET receipt == Field(tx, "receipt", [status |-> NULL])
      seenTx == Field(tx, "seenTx", FALSE)
  IN  IF receipt.status # NULL
        THEN IF receipt.status = 1 THEN "mined-success" ELSE "mined-revert"
      ELSE IF seenTx THEN "broadcast-pending"
      ELSE "unconfirmed"

(***************************************************************************)
(* runOnce: the strategy loop, from one await to the next.                 *)
(***************************************************************************)
Strategies == 1..MaxStrategies

\* const shouldSendToChain = scheduled || (runType === "manual" && FORCE_SEND_RUN_NOW)
ShouldSendToChain(runType, forceSend) ==
  runType = "scheduled" \/ (runType = "manual" /\ forceSend)

\* const chain = (shouldSendToChain || nSignalsFeedback > 0) ? buildChainClient() : null
HasChain(runType, forceSend, nSignalsFeedback) ==
  ShouldSendToChain(runType, forceSend) \/ nSignalsFeedback > 0

\* how the race of postSignal against the send timeout settles
RaceOutcomes == {"ok", "validation", "rpc", "timeout"}

\* the loop from the head of strategy k to its first await: a strategy without
\* market data is logged as cash and skipped
RECURSIVE LoopFrom(_, _)
LoopFrom(r, k) ==
  IF k > MaxStrategies THEN [r EXCEPT !.pc = "done", !.strategy = 0]
  ELSE IF k \notin r.dataOk THEN LoopFrom([r EXCEPT !.logged = @ \cup {k}], k + 1)
  ELSE IF r.chain /\ r.nSignalsFeedback > 0 THEN [r EXCEPT !.pc = "feedback", !.strategy = k]
  ELSE [r EXCEPT !.pc = "decide", !.strategy = k]

\* getRecentSignalsForStrategy settled (a failure is caught): on to the decision
AfterFeedback(r) == [r EXCEPT !.pc = "decide"]

\* the decision settled (a failure defaults to cash): the record is logged and,
\* with a chain client, the progress timer is set and postSignal is called
AfterDecide(r) ==
  LET k == r.strategy
      logged == [r EXCEPT !.decided = @ \cup {k}, !.logged = @ \cup {k}]
  IN  IF r.chain
        THEN [logged EXCEPT !.pc = "post", !.timer = r.showProgress, !.ticks = 0,
                            !.posted = @ \cup {k}]
        ELSE LoopFrom(logged, k + 1)

\* AfterRace that clears the timer only when the submission succeeded
AfterRaceTimerLeftOnFailure(r, outcome) ==
  LET k == r.strategy
      settled == [r EXCEPT !.timer = IF outcome = "ok" THEN FALSE ELSE @,
                           !.ticks = 0, !.outcome = outcome]
  IN  IF outcome = "ok"
        THEN LoopFrom([settled EXCEPT !.broadcast = @ \cup {k}], k + 1)
        ELSE LoopFrom([settled EXCEPT !.chainErrors = @ \cup {k}], k + 1)

\* AfterRace that lets a failed post leave runOnce
AfterRaceFailureEndsRun(r, outcome) ==
  LET k == r.strategy
      settled == [r EXCEPT !.timer = FALSE, !.ticks = 0, !.outcome = outcome]
  IN  IF outcome = "ok"
        THEN LoopFrom([settled EXCEPT !.broadcast = @ \cup {k}], k + 1)
        ELSE [settled EXCEPT !.pc = "done", !.strategy = 0]

\* the race settled: finally { clearInterval(timer) }, then the report or the
\* chain_error record, then the next strategy
AfterRace(r, outcome) ==
  LET k == r.strategy
      settled == [r EXCEPT !.timer = FALSE, !.ticks = 0, !.outcome = outcome]
  IN  IF outcome = "ok"
        THEN LoopFrom([settled EXCEPT !.broadcast = @ \cup {k}], k + 1)
        ELSE LoopFrom([settled EXCEPT !.chainErrors = @ \cup {k}], k + 1)

ApplyRun(r) ==
  /\ run' = r
  /\ UNCHANGED <<cfg, endpoint, tidy, codec, retry>>
  /\ UNCHANGED postVars
  /\ UNCHANGED readVars
  /\ UNCHANGED waitVars

\* runOnce({ runType }) is called
StartRun ==
  /\ run.pc = "idle"
  /\ \E runType \in {"scheduled", "manual"}, forceSend \in BOOLEAN,
        nSignalsFeedback \in {0, 3}, showProgress \in BOOLEAN,
        dataOk \in SUBSET Strategies :
       ApplyRun(LoopFrom([run EXCEPT
                            !.runType = runType, !.forceSend = forceSend,
                            !.nSignalsFeedback = nSignalsFeedback,
                            !.showProgress = showProgress, !.dataOk = dataOk,
                            !.chain = HasChain(runType, forceSend, nSignalsFeedback)],
                          1))

RespFeedback ==
  /\ run.pc = "feedback"
  /\ ApplyRun(AfterFeedback(run))

RespDecide ==
  /\ run.pc = "decide"
  /\ ApplyRun(AfterDecide(run))

\* the interval of the progress timer fires
ProgressTick ==
  /\ run.timer
  /\ run.ticks < MaxTicks
  /\ ApplyRun([run EXCEPT !.ticks = @ + 1])

RaceSettles ==
  /\ run.pc = "post"
  /\ \E outcome \in RaceOutcomes : ApplyRun(AfterRace(run, outcome))

InitRun == cfg = ReadConfig /\ endpoint = ReadEndpoint /\ Fresh

NextRun == StartRun \/ RespFeedback \/ RespDecide \/ ProgressTick \/ RaceSettles

SpecRun == InitRun /\ [][NextRun]_vars

(***************************************************************************)
(* tidyExplanation.  A text is a sequence of characters; the model's       *)
(* alphabet has a letter, a digit, the space, the newline, the three       *)
(* sentence-ending marks and a closing parenthesis.                        *)
(***************************************************************************)
\* const MAX = 280
MAX == 280
\* lastPunct >= 40, lastSpace >= 40
MinCutIndex == 40

\* \s
IsSpace(ch) == ch \in {" ", "\n"}
\* [A-Za-z0-9]
IsAlnum(ch) == ch \in {"a", "7"}
\* [.!?]
EndMarks == {".", "!", "?"}

Fill(ch, n) == [i \in 1..n |-> ch]

\* /[A-Za-z0-9]$/.test(t)
EndsAlnum(t) == Len(t) > 0 /\ IsAlnum(t[Len(t)])
\* /[.!?]$/.test(t)
EndsWithMark(t) == Len(t) > 0 /\ t[Len(t)] \in EndMarks

\* the first position at or after i that does not hold whitespace
SkipSpace(t, i) ==
  CHOOSE m \in i..(Len(t) + 1) :
    (m = Len(t) + 1 \/ ~IsSpace(t[m])) /\ \A k \in i..(m - 1) : IsSpace(t[k])

\* the last position at or before i that does not hold whitespace, 0 for none
SkipSpaceBack(t, i) ==
  CHOOSE m \in 0..i :
    (m = 0 \/ ~IsSpace(t[m])) /\ \A k \in (m + 1)..i : IsSpace(t[k])

\* t.trim()
TrimText(t) == SubSeq(t, SkipSpace(t, 1), SkipSpaceBack(t, Len(t)))

\* t.slice(0, n) for 0 <= n
Slice(t, n) == SubSeq(t, 1, Min(n, Len(t)))

\* t.lastIndexOf(ch), and the Math.max of several: indices from 0, -1 for none
LastIndexOf(t, chars) ==
  LET at == {k \in 1..Len(t) : t[k] \in chars}
  IN  IF at = {} THEN -1 ELSE (CHOOSE m \in at : \A k \in at : k <= m) - 1

\* t.replace(re, " ") for re = /\s*\n\s*/g (newlineOnly) and for re = /\s+/g:
\* a whitespace run is replaced by one space, under the first expression only
\* when it holds a newline
ReplaceRuns(t, newlineOnly) ==
  LET Matched(i) ==
        /\ IsSpace(t[i])
        /\ \/ ~newlineOnly
           \/ \E k \in (SkipSpaceBack(t, i) + 1)..(SkipSpace(t, i) - 1) : t[k] = "\n"
      Kept(i) == ~Matched(i) \/ i = 1 \/ ~IsSpace(t[i - 1])
      at == SelectSeq([i \in 1..Len(t) |-> i], Kept)
  IN  [j \in 1..Len(at) |-> IF Matched(at[j]) THEN " " ELSE t[at[j]]]

\* tidyExplanation(text) for a string text
tidyExplanation(text) ==
  IF text = <<>> THEN text
  ELSE
    LET t0 == TrimText(text)
        t1 == ReplaceRuns(t0, TRUE)
        t2 == ReplaceRuns(t1, FALSE)
        t3 == IF Len(t2) > MAX THEN TrimText(Slice(t2, MAX)) ELSE t2
        lastPunct == LastIndexOf(t3, EndMarks)
        lastSpace == LastIndexOf(t3, {" "})
        cut == IF lastSpace >= MinCutIndex THEN TrimText(Slice(t3, lastSpace)) ELSE t3
        t4 == IF Len(t3) > 0 /\ EndsAlnum(t3) /\ ~EndsWithMark(t3)
                THEN IF lastPunct >= MinCutIndex THEN TrimText(Slice(t3, lastPunct + 1))
                     ELSE IF ~EndsWithMark(cut) THEN Append(cut, ".") ELSE cut
                ELSE t3
    IN  IF ~EndsWithMark(t4) THEN Append(t4, ".") ELSE t4

\* the request runOnce makes of an explanation: message: record.explanation
PostRequestOf(text) ==
  [BaseRequest EXCEPT !.message = Str(Len(text), Len(text) - Len(TrimText(text)))]

\* the explanation texts: head letters, a middle, body letters, a tail
Sentence(head, middle, body, tail) == Fill("a", head) \o middle \o Fill("7", body) \o tail
HeadLengths == {0, MinCutIndex - 1, MinCutIndex, MinCutIndex + 1}
Middles == {<<>>, <<"!">>, <<" ">>, <<" ", "\n", " ">>}
BodyLengths ==
  {0, 3} \cup ((MAX - MinCutIndex - 4)..(MAX - MinCutIndex - 1)) \cup ((MAX - 2)..(MAX + MaxExtra))
Tails == {<<>>, <<".">>, <<")">>, <<" ">>, <<"a", ")">>}
ExplanationInputs ==
  {Sentence(h, m, b, e) : h \in HeadLengths, m \in Middles, b \in BodyLengths, e \in Tails}

\* what the provider's schema lets through: z.string().min(1).max(280)
SchemaAccepts(text) == Len(text) >= 1 /\ Len(text) <= MAX

\* explanation: tidyExplanation(decision.explanation)
Tidy ==
  /\ tidy.pc = "decided"
  /\ tidy' = [tidy EXCEPT !.pc = "recorded", !.out = tidyExplanation(tidy.text)]
  /\ UNCHANGED <<cfg, endpoint, run, codec, retry>>
  /\ UNCHANGED postVars
  /\ UNCHANGED readVars
  /\ UNCHANGED waitVars

\* chain.postSignal({ ..., message: record.explanation, ... }) up to the end of
\* its validation
PostExplanation ==
  /\ tidy.pc = "recorded"
  /\ tidy' = [tidy EXCEPT !.pc = "posted", !.err = ValidationError(PostRequestOf(tidy.out))]
  /\ UNCHANGED <<cfg, endpoint, run, codec, retry>>
  /\ UNCHANGED postVars
  /\ UNCHANGED readVars
  /\ UNCHANGED waitVars

InitTidy ==
  /\ cfg = ReadConfig /\ endpoint = ReadEndpoint
  /\ FreshPost /\ FreshRead /\ FreshWait /\ ledger = <<>>
  /\ run = IdleRun /\ codec = IdleCodec /\ retry = IdleRetry
  /\ tidy \in {[IdleTidy EXCEPT !.pc = "decided", !.text = t] : t \in ExplanationInputs}

NextTidy == Tidy \/ PostExplanation

SpecTidy == InitTidy /\ [][NextTidy]_vars

(***************************************************************************)
(* The decision's encoding for the ledger and its decoding for feedback.   *)
(***************************************************************************)
Signals == {"LONG_ASSET", "LONG_CASH", "SHORT_ASSET"}

\* the chain asset labels the model draws from
ChainAssets == {"BTC", "ETH", "SOL", "XAU", "USDC", "USDT", "USD", "usd", "Usd", " USD "}

\* String(asset ?? "").trim() on those labels
TrimAsset(l) == IF l = " USD " THEN "USD" ELSE l

\* String(s.asset || "").toUpperCase() on those labels
ToUpperCase(l) ==
  CASE l \in {"usd", "Usd"} -> "USD"
    [] OTHER -> l

\* mapDecisionToChain that keeps the strategy's asset for LONG_CASH
mapDecisionToChainKeepsAsset(decisionSignal, chainAsset) ==
  IF decisionSignal = "SHORT_ASSET" THEN [asset |-> chainAsset, target |-> "Short"]
  ELSE [asset |-> chainAsset, target |-> "Long"]

\* mapDecisionToChain(decisionSignal, chainAsset)
mapDecisionToChain(decisionSignal, chainAsset) ==
  IF decisionSignal = "SHORT_ASSET" THEN [asset |-> chainAsset, target |-> "Short"]
  ELSE IF decisionSignal = "LONG_CASH" THEN [asset |-> "USD", target |-> "Long"]
  ELSE [asset |-> chainAsset, target |-> "Long"]

\* the feedback mapping of runOnce, for an entry read from the ledger
FeedbackSignal(asset, target) ==
  LET isCash == ToUpperCase(asset) = "USD" /\ target = 0
  IN  IF isCash THEN "LONG_CASH"
      ELSE IF target = 1 THEN "SHORT_ASSET" ELSE "LONG_ASSET"

ApplyCodec(c) ==
  /\ codec' = c
  /\ UNCHANGED <<cfg, endpoint, run, tidy, retry>>
  /\ UNCHANGED postVars
  /\ UNCHANGED readVars
  /\ UNCHANGED waitVars

\* const chainMapped = mapDecisionToChain(decision.signal, strategy.chainAsset)
Encode ==
  /\ codec.pc = "decided"
  /\ LET m == mapDecisionToChain(codec.signal, codec.chainAsset)
     IN  ApplyCodec([codec EXCEPT !.pc = "mapped", !.asset = m.asset, !.target = m.target])

\* chain.postSignal({ asset: chainMapped.asset, target: chainMapped.target, ... }):
\* the entry holds the trimmed asset and the target's enum value
StoreSignal ==
  /\ codec.pc = "mapped"
  /\ ApplyCodec([codec EXCEPT !.pc = "stored",
                              !.storedAsset = TrimAsset(codec.asset),
                              !.storedTarget = TargetEnumOf(TStr(codec.target)).v])

\* feedbackSignals = raw.map((s) => ...), for that entry
Decode ==
  /\ codec.pc = "stored"
  /\ ApplyCodec([codec EXCEPT !.pc = "read",
                              !.readBack = FeedbackSignal(codec.storedAsset, codec.storedTarget)])

InitCodec ==
  /\ cfg = ReadConfig /\ endpoint = ReadEndpoint
  /\ FreshPost /\ FreshRead /\ FreshWait /\ ledger = <<>>
  /\ run = IdleRun /\ tidy = IdleTidy /\ retry = IdleRetry
  /\ codec \in {[IdleCodec EXCEPT !.pc = "decided", !.signal = s, !.chainAsset = a] :
                  s \in Signals, a \in ChainAssets}

NextCodec == Encode \/ StoreSignal \/ Decode

SpecCodec == InitCodec /\ [][NextCodec]_vars

(***************************************************************************)
(* postWithRetry.  An attempt settles with the HTTP status of the          *)
(* response; 0 stands for an error without a response (network error,      *)
(* timeout), for which err?.response?.status is undefined.                 *)
(***************************************************************************)
NoResponse == 0
\* axios resolves for the statuses validateStatus accepts, 2xx
ResolvedStatuses == {200}
\* and rejects for the others
RejectedStatuses ==
  {NoResponse, 302, 400, 401, 404, 408, 409, 425, 429, 499, 500, 503, 599, 600}
Statuses == ResolvedStatuses \cup RejectedStatuses

\* shouldRetryAxiosError that calls every error transient
shouldRetryAxiosErrorAlways(status) == TRUE

\* shouldRetryAxiosError(err), for err?.response?.status
shouldRetryAxiosError(status) ==
  IF status = NoResponse THEN TRUE
  ELSE IF status = 408 \/ status = 409 \/ status = 425 \/ status = 429 THEN TRUE
  ELSE IF status >= 500 /\ status <= 599 THEN TRUE
  ELSE FALSE

\* the head of while (attempt <= retries): the next axios.post, or throw lastErr
RetryLoop(r) ==
  IF r.attempt <= r.retries
    THEN [r EXCEPT !.pc = "posting", !.attempts = @ + 1]
    ELSE [r EXCEPT !.pc = "thrown", !.thrown = r.lastErr]

\* axios.post settled
AfterPost(r, status) ==
  LET seen == Append(r.seen, status)
  IN  IF status \in ResolvedStatuses THEN [r EXCEPT !.pc = "returned", !.seen = seen]
      ELSE LET retryable == shouldRetryAxiosError(status)
           IN  IF ~retryable \/ r.attempt = r.retries
                 THEN [r EXCEPT !.pc = "thrown", !.seen = seen, !.lastErr = status,
                                !.thrown = status]
                 ELSE [r EXCEPT !.pc = "sleeping", !.seen = seen, !.lastErr = status]

\* await sleep(delay) is over: attempt += 1 and back to the head of the loop
AfterRetrySleep(r) == RetryLoop([r EXCEPT !.attempt = @ + 1])

ApplyRetry(r) ==
  /\ retry' = r
  /\ UNCHANGED <<cfg, endpoint, run, tidy, codec>>
  /\ UNCHANGED postVars
  /\ UNCHANGED readVars
  /\ UNCHANGED waitVars

\* postWithRetry(url, body, axiosConfig, { retries }) is called
CallPost ==
  /\ retry.pc = "idle"
  /\ \E n \in 0..MaxRetries : ApplyRetry(RetryLoop([retry EXCEPT !.retries = n]))

RespPost ==
  /\ retry.pc = "posting"
  /\ \E status \in Statuses : ApplyRetry(AfterPost(retry, status))

WakeRetry ==
  /\ retry.pc = "sleeping"
  /\ ApplyRetry(AfterRetrySleep(retry))

InitRetry == cfg = ReadConfig /\ endpoint = ReadEndpoint /\ Fresh

NextRetry == CallPost \/ RespPost \/ WakeRetry

SpecRetry == InitRetry /\ [][NextRetry]_vars

(***************************************************************************)
(* Properties.                                                             *)
(***************************************************************************)
InFlight(c) == calls[c].pc \notin {"idle", "done", "failed"}

\* the nonce an invocation has been assigned, NULL when it has none
AssignedNonce(c) ==
  IF calls[c].pc = "done" THEN calls[c].result.nonce ELSE calls[c].nonce

\* C1: under any interleaving of postSignal invocations on one client, no two
\* invocations that passed validation are assigned the same nonce.
C1_NoTwoCallsShareNonce ==
  \A c, d \in Calls :
    (c # d /\ AssignedNonce(c) # NULL /\ AssignedNonce(d) # NULL)
      => AssignedNonce(c) # AssignedNonce(d)

\* C2: when the allocations follow one another (none begins while another one's
\* count query is in flight), the nonces returned are initial, initial+1, ... in
\* that order, initial being the count of the first successful count query.
C2_SequentialNonces ==
  ~overlap =>
    \A i \in 1..Len(allocLog) : allocLog[i] = firstCount + (i - 1)

C2_Witness ==
  /\ ~overlap
  /\ Len(allocLog) >= 2
  /\ \E c \in Calls : calls[c].pc = "rpc_send"

\* C3: an invocation that reaches _allocNonce when the cursor is initialised
\* issues no eth_getTransactionCount request.
C3_NoCountQueryOnceInitialised ==
  [][\A c \in Calls :
       (nextNonce # NULL /\ calls[c].pc \in {"idle", "rpc_chainId"})
         => calls'[c].pc # "rpc_txCount"]_vars

C3_Witness ==
  /\ Len(allocLog) >= 2
  /\ \E c \in Calls : calls[c].pc = "rpc_estimateGas" /\ calls[c].nonce = allocLog[2]

\* C4: once the cursor holds a value it never returns to null and never
\* decreases, and every change of it is a rise by exactly one.
C4_CursorOnlyRisesByOne ==
  [][nextNonce # NULL => (nextNonce' = nextNonce \/ nextNonce' = nextNonce + 1)]_vars

\* the fee a signed transaction declares
DeclaredFee(c) ==
  IF calls[c].type = 2 THEN calls[c].maxFeePerGas ELSE calls[c].gasPrice

\* C5: the fee declared in every signed transaction (gasPrice, or maxFeePerGas)
\* is at least 1 wei and at most the configured ceiling.
C5_DeclaredFeeWithinCeiling ==
  \A c \in Calls :
    calls[c].pc = "rpc_send" => (DeclaredFee(c) >= 1 /\ DeclaredFee(c) <= maxWei)

C5_Witness ==
  \E c \in Calls :
    /\ calls[c].pc = "rpc_send"
    /\ calls[c].type # 2
    /\ cfg.gasPriceGwei = 0
    /\ endpoint.gasPrice.v > maxWei
    /\ calls[c].gasPrice = maxWei

\* the base fee a fee-market submission uses: eth_feeHistory, else eth_gasPrice
BaseFeeUsed == IF endpoint.baseFee.ok THEN endpoint.baseFee.v ELSE endpoint.gasPrice.v

OutOfRange(x, lo, hi) ==
  LET n == NumberOr1(x) IN ~IsFinite(n) \/ n.v < lo \/ n.v > hi

\* the message argument as given: message, or else comment
RawMessage(req) == StringOf(Coalesce(req.message, CommentOf(req)))

\* a request the claim C7 calls invalid, with the asset label and the message
\* measured as they are given
InvalidAsGiven(req) ==
  \/ StratOf(req).len \notin 1..MaxStrategyLen
  \/ StringOf(req.asset).len \notin 1..MaxAssetLen
  \/ RawMessage(req).len > MaxMessageLen
  \/ OutOfRange(req.leverage, MinLeverage, MaxLeverage)
  \/ OutOfRange(req.weight, MinWeight, MaxWeight)

\* the same, with the asset label and the message measured after trimming
InvalidTrimmed(req) ==
  \/ StratOf(req).len \notin 1..MaxStrategyLen
  \/ Trim(StringOf(req.asset)).len \notin 1..MaxAssetLen
  \/ Trim(RawMessage(req)).len > MaxMessageLen
  \/ OutOfRange(req.leverage, MinLeverage, MaxLeverage)
  \/ OutOfRange(req.weight, MinWeight, MaxWeight)

\* the invocation c made with req has thrown without issuing any RPC request
RejectedAtOnce(c, req) ==
  /\ calls'[c].pc = "failed"
  /\ calls'[c].err \in {"Invalid strategy", "Invalid asset", "Invalid message",
                        "Invalid leverage", "Invalid weight"}
  /\ ~calls'[c].usedRpc

\* C7 as stated: a request whose strategy label (trimmed) is not 1-30 characters,
\* whose asset label is not 1-10 characters, whose message is longer than 280
\* characters, or whose leverage or weight is out of range, fails before any RPC
\* request is issued.
C7_InvalidAsGivenRejected ==
  [][\A c \in Calls :
       (calls[c].pc = "idle" /\ calls'[c].pc # "idle") =>
         \A req \in {r \in Requests : InvalidAsGiven(r)} :
           Start(c, req) => RejectedAtOnce(c, req)]_vars

\* C7 amended: the same with the asset label and the message measured after
\* trimming, as the strategy label is.
C7_InvalidTrimmedRejected ==
  [][\A c \in Calls :
       (calls[c].pc = "idle" /\ calls'[c].pc # "idle") =>
         \A req \in {r \in Requests : InvalidTrimmed(r)} :
           Start(c, req) => RejectedAtOnce(c, req)]_vars

C7_Witness ==
  \E c \in Calls :
    /\ calls[c].pc = "failed"
    /\ calls[c].err = "Invalid message"
    /\ ~calls[c].usedRpc

\* C8: a request whose position intent is not Long (0) or Short (1) is rejected
\* before any RPC request is issued: no invocation that has issued a request
\* carries any other intent.
C8_OnlyLongOrShortProceeds ==
  \A c \in Calls :
    (InFlight(c) /\ calls[c].usedRpc) => calls[c].targetEnum \in {0, 1}

\* C9: an invocation issues eth_sendRawTransaction at most once, and a failed
\* send ends it with the endpoint's error.
C9_SendAtMostOnce ==
  \A c \in Calls :
    /\ calls[c].nSend <= 1
    /\ calls[c].err \in {"underpriced", "rejected"}
         => (calls[c].pc = "failed" /\ calls[c].nSend = 1)

C9_Witness ==
  \E c \in Calls :
    calls[c].pc = "failed" /\ calls[c].err = "underpriced" /\ calls[c].nSend = 1

\* C10: an invocation whose send succeeded returns at once with the endpoint's
\* hash, the allocated nonce and the chain id, and issues no request afterwards.
C10_ReturnsAfterSend ==
  [][\A c \in Calls :
       /\ (calls[c].pc = "rpc_send" /\ calls'[c].pc # "failed") =>
            /\ calls'[c].pc \in {"rpc_send", "done"}
            /\ calls'[c].pc = "done" =>
                 /\ calls'[c].result.txHash = TxHash(c)
                 /\ calls'[c].result.nonce = calls[c].nonce
                 /\ calls'[c].result.chainId = calls[c].chainId
       /\ calls[c].pc = "done" => calls'[c] = calls[c]]_vars

C10_Witness ==
  \E c \in Calls :
    /\ calls[c].pc = "done"
    /\ calls[c].result.txHash # <<>>
    /\ calls[c].result.nonce \in {5, 6, 7}
    /\ calls[c].result.chainId \in {0, 168}

\* C11: with receipt waiting requested (CHAIN_WAIT_RECEIPT=true), an invocation
\* whose send succeeded polls for the receipt: it returns with a receipt
\* (Mined-Success / Mined-Revert) or with the mark that the wait timed out.
C11_WaitsForReceiptWhenRequested ==
  \A c \in Calls :
    (cfg.waitReceipt /\ calls[c].pc = "done") =>
      \/ RunOnceOutcome(calls[c].result) \in {"mined-success", "mined-revert"}
      \/ Field(calls[c].result, "pending", FALSE)

\* C12: when the endpoint gave a hash but does not return the transaction by
\* hash, the outcome reported of the submission is unconfirmed, never a success.
C12_UnknownTxIsUnconfirmed ==
  \A c \in Calls :
    (calls[c].pc = "done" /\ ~endpoint.txByHash) =>
      RunOnceOutcome(calls[c].result) = "unconfirmed"

C12_Witness ==
  \E c \in Calls :
    /\ calls[c].pc = "done"
    /\ ~endpoint.txByHash
    /\ calls[c].result.txHash # <<>>
    /\ calls[c].result.status = "broadcast"

\* C13: a broadcast transaction that the endpoint returns by hash is reported
\* as Broadcast-Pending, and so told apart from one the endpoint does not know.
C13_KnownTxIsPending ==
  \A c \in Calls :
    (calls[c].pc = "done" /\ endpoint.txByHash) =>
      RunOnceOutcome(calls[c].result) = "broadcast-pending"

\* C14: for every successful submission the hash runOnce reports (tx.hash, in
\* the log line and the explorer URL) is the hash eth_sendRawTransaction returned.
C14_ReportedHashIsSentHash ==
  \A c \in Calls :
    calls[c].pc = "done" =>
      /\ ReportedHash(calls[c].result) = calls[c].result.txHash
      /\ txUrl(ReportedHash(calls[c].result)) = <<"explorer/tx", calls[c].result.txHash>>

\* the last nonce _allocNonce has returned
LastAllocated == allocLog[Len(allocLog)]

\* C15: when the count query with the "pending" tag is rejected the allocator
\* asks again with "latest"; the count returned for "latest" is the nonce of the
\* first allocation, and every following allocation returns the last nonce plus one.
C15_LatestFallback ==
  [][\A c \in Calls :
       /\ \A ans \in TxCountAnswers :
            (calls[c].pc = "rpc_txCount" /\ Apply(c, AfterTxCount(World(c), ans))) =>
              /\ (calls[c].rung = 1 /\ ~ans.ok) =>
                   (calls'[c].pc = "rpc_txCount" /\ calls'[c].rung = 2)
              /\ (calls[c].rung = 2 /\ ans.ok) =>
                   /\ calls'[c].pc = "rpc_estimateGas"
                   /\ calls'[c].nonce = ans.v
                   /\ allocLog' = <<ans.v>>
                   /\ firstShape' = 2
       /\ (allocLog # <<>> /\ allocLog' # allocLog) =>
            allocLog' = Append(allocLog, LastAllocated + 1)]_vars

C15_Witness ==
  /\ firstShape = 2
  /\ Len(allocLog) >= 2
  /\ allocLog[1] = firstCount
  /\ allocLog[2] > allocLog[1]

\* C16: when the count query is rejected with "pending", with "latest" and with
\* the tag omitted, the allocator resolves the current block number (and then
\* asks the count at that block).
C16_BlockNumberFallback ==
  [][\A c \in Calls : \A ans \in TxCountAnswers :
       ( /\ calls[c].pc = "rpc_txCount"
         /\ calls[c].rung = TxCountShapes
         /\ ~ans.ok
         /\ Apply(c, AfterTxCount(World(c), ans)) )
       => calls'[c].pc = "rpc_blockNumber"]_vars

\* C17: the count ladder moves to the next request shape only after a
\* request-shape rejection; a failure of another kind leaves postSignal at once.
C17_OnlyShapeRejectionsAbsorbed ==
  [][\A c \in Calls : \A ans \in TxCountAnswers :
       ( /\ calls[c].pc = "rpc_txCount"
         /\ ~ans.ok
         /\ ans.err # "invalid request"
         /\ Apply(c, AfterTxCount(World(c), ans)) )
       => calls'[c].pc = "failed"]_vars

\* C18: with CHAIN_TX_TYPE legacy or eip1559 the fee mode is resolved to that
\* value without an eth_feeHistory probe; otherwise the probe is issued and the
\* mode is fee-market when it succeeds and legacy when it fails.
C18_FeeModeResolution ==
  [][\A c \in Calls :
       /\ (calls[c].pc = "rpc_postFee" /\ calls'[c].pc # "rpc_postFee") =>
            /\ cfg.txTypePref = "legacy" =>
                 (supports1559' = "false" /\ calls'[c].pc # "rpc_feeHistory")
            /\ cfg.txTypePref = "eip1559" =>
                 (supports1559' = "true" /\ calls'[c].pc = "rpc_feeHistory")
            /\ (cfg.txTypePref \notin {"legacy", "eip1559"} /\ supports1559 = "null") =>
                 (supports1559' = "null" /\ calls'[c].pc = "rpc_probe1559")
       /\ cfg.txTypePref \in {"legacy", "eip1559"} => calls'[c].pc # "rpc_probe1559"
       /\ \A ans \in ProbeAnswers :
            (calls[c].pc = "rpc_probe1559" /\ Apply(c, AfterProbe1559(World(c), ans)))
              => supports1559' = (IF ans.ok THEN "true" ELSE "false")]_vars

C18_Witness ==
  \E c \in Calls :
    /\ cfg.txTypePref = "auto"
    /\ supports1559 = "false"
    /\ calls[c].pc = "rpc_gasPrice"

\* C19: the fee-mode field and the cached chain id, once resolved, never change.
C19_ResolvedOnce ==
  [][/\ supports1559 # "null" => supports1559' = supports1559
     /\ remoteChainId # NULL => remoteChainId' = remoteChainId]_vars

\* C20: a configured chain id greater than 0 is used without an eth_chainId
\* request; otherwise the endpoint is asked once: a hex result is cached and
\* used, on a failure or a result that is not hex the configured value is cached
\* and used, and later invocations use the cached value without asking again.
C20_ChainIdResolution ==
  [][\A c \in Calls :
       /\ (calls[c].pc = "idle" /\ calls'[c].pc \notin {"idle", "failed"}) =>
            /\ cfg.chainId > 0 =>
                 /\ calls'[c].pc # "rpc_chainId"
                 /\ calls'[c].chainId = cfg.chainId
                 /\ remoteChainId' = remoteChainId
            /\ (cfg.chainId <= 0 /\ remoteChainId = NULL) => calls'[c].pc = "rpc_chainId"
            /\ (cfg.chainId <= 0 /\ remoteChainId # NULL) =>
                 /\ calls'[c].pc # "rpc_chainId"
                 /\ calls'[c].chainId = remoteChainId
                 /\ remoteChainId' = remoteChainId
       /\ \A ans \in ChainIdAnswers :
            (calls[c].pc = "rpc_chainId" /\ Apply(c, AfterChainId(World(c), ans))) =>
              /\ ans \in {Fail, NotHex} =>
                   (remoteChainId' = cfg.chainId /\ calls'[c].chainId = cfg.chainId)
              /\ ans \notin {Fail, NotHex} =>
                   (remoteChainId' = ans.v /\ calls'[c].chainId = ans.v)]_vars

C20_Witness ==
  /\ cfg.chainId = 0
  /\ remoteChainId = cfg.chainId
  /\ Len(allocLog) >= 2
  /\ \E c \in Calls : calls[c].chainId = cfg.chainId /\ calls[c].nonce = allocLog[2]

\* the positions of the id list a read worked from whose label is the requested one
Matching(r) ==
  {k \in 1..Len(idsCache.ids) :
     TrimLabel(ledger[idsCache.ids[k]]) = TrimLabel(reads[r].req.strategyName)}

\* C21: getRecentSignalsForStrategy(strategyName, n) returns exactly the
\* min(n, m) newest of the m entries whose label equals strategyName after
\* trimming, oldest first; it returns the empty sequence when the account has
\* no ids or none match.
C21_RecentSignals ==
  \A r \in Readers :
    reads[r].pc = "done" =>
      LET res == reads[r].result
          n == Max(0, reads[r].req.n)
      IN  /\ Len(res) = Min(n, Cardinality(Matching(r)))
          /\ \A j \in 1..Len(res) : res[j] \in Matching(r)
          /\ \A j \in 1..(Len(res) - 1) : res[j] < res[j + 1]
          /\ \A k \in Matching(r) :
               (\A j \in 1..Len(res) : res[j] # k) => \A j \in 1..Len(res) : k < res[j]

C21_Witness ==
  /\ ledger = <<"A", "B", "A", "B", "A">>
  /\ reads["first"].pc = "done"
  /\ reads["first"].req = [strategyName |-> "A", n |-> 3]
  /\ reads["first"].result = <<1, 3, 5>>

\* the matching entries newer than position i of the id list read r walks
NewerMatches(rd, i) ==
  {k \in (i + 1)..rd.nIds : TrimLabel(ledger[Ids(rd.nIds)[k]]) = rd.strategy}

\* C22: getRecentSignalsForStrategy walks the id list from newest to oldest and
\* stops resolving entries once n matches are found or the ids are exhausted: an
\* id it asks the endpoint for is never older than the n-th newest matching
\* entry, and every id newer than it has been resolved before.
C22_WalkStops ==
  [][\A r \in Readers :
       (reads'[r].pc = "rpc_getSignal" /\ reads'[r] # reads[r]) =>
         /\ reads'[r].i \in 1..reads'[r].nIds
         /\ Cardinality(NewerMatches(reads'[r], reads'[r].i)) < reads'[r].want
         /\ reads[r].pc = "rpc_getSignal" => reads'[r].i < reads[r].i
         /\ \A k \in (reads'[r].i + 1)..reads'[r].nIds : k \in sigCache']_vars

C22_Witness ==
  /\ ledger = <<"B", "A", "B">>
  /\ reads["first"].pc = "done"
  /\ reads["first"].req = [strategyName |-> "A", n |-> 1]
  /\ reads["first"].result = <<2>>
  /\ sigCache = {2, 3}

\* read r sends a request for the entry at a position of its id list
AsksForEntry(r) == reads'[r].pc = "rpc_getSignal" /\ reads'[r] # reads[r]

\* a read made after another one that returned, with the same arguments, returns
\* the same sequence and issued no RPC request
RepeatedReadIsCached(r) ==
  (reads'[r].pc = "done" /\ reads'[r].after) =>
    \A q \in Readers \ {r} :
      (reads'[q].pc = "done" /\ reads'[q].req = reads'[r].req) =>
        (reads'[r].result = reads'[q].result /\ ~reads'[r].usedRpc)

\* a read that fails leaves both caches as they were
FailedReadStoresNothing(r) ==
  (reads'[r].pc = "failed" /\ reads[r].pc # "failed") =>
    (idsCache' = idsCache /\ sigCache' = sigCache)

C24_OneFeeVariant ==
  \A c \in Calls :
    calls[c].pc = "rpc_send" =>
      IF supports1559 = "true"
        THEN /\ calls[c].type = 2
             /\ calls[c].maxFeePerGas # NULL /\ calls[c].maxPriorityFeePerGas # NULL
             /\ calls[c].gasPrice = NULL
        ELSE /\ supports1559 = "false"
             /\ calls[c].type = NULL
             /\ calls[c].gasPrice # NULL
             /\ calls[c].maxFeePerGas = NULL /\ calls[c].maxPriorityFeePerGas = NULL

C24_Witness ==
  /\ cfg.txTypePref = "auto"
  /\ supports1559 = "false"
  /\ \E c \in Calls :
       /\ calls[c].pc = "rpc_send"
       /\ calls[c].gasPrice = 1500 /\ calls[c].maxFeePerGas = NULL

\* C25: the legacy gas price is clamp(fixed, 1 wei, ceiling) with no eth_gasPrice
\* request when a positive fixed price is configured; otherwise it is
\* clamp(floor(suggested * k / 1000), 1 wei, ceiling), k = max(1, round(multiplier * 1000)).
C25_LegacyGasPrice ==
  [][\A c \in Calls :
       LET ceiling == cfg.maxGasPriceGwei * 1000
           fixed == cfg.gasPriceGwei * 1000
           k == Max(1, (cfg.gasPriceMultiplier + 5) \div 10)
           floored == (endpoint.gasPrice.v * k) \div 1000
       IN  /\ cfg.gasPriceGwei > 0 => calls'[c].pc # "rpc_gasPrice"
           /\ (calls'[c].pc = "rpc_send" /\ calls[c].pc # "rpc_send" /\ calls'[c].type # 2) =>
                IF cfg.gasPriceGwei > 0
                  THEN calls'[c].gasPrice = Max(1, Min(fixed, ceiling))
                  ELSE /\ calls[c].pc = "rpc_gasPrice"
                       /\ endpoint.gasPrice.ok
                       /\ calls'[c].gasPrice = Max(1, Min(floored, ceiling))]_vars

C25_Witness ==
  /\ cfg.gasPriceGwei = 0
  /\ cfg.gasPriceMultiplier = 12345
  /\ endpoint.gasPrice = Ok(1000000)
  /\ \E c \in Calls : calls[c].pc = "rpc_send" /\ calls[c].gasPrice = 1235000

\* the gas estimate postSignal works with: the endpoint's, or the fixed fallback
\* when the eth_estimateGas request fails or its result is not hex
EstimateOrFallback ==
  IF endpoint.estimateGas.ok /\ endpoint.estimateGas.v # NULL
    THEN endpoint.estimateGas.v ELSE 300000

\* C26: the declared gas limit of every submission is floor(e * 122 / 100), e
\* being the endpoint's gas estimate or, when the estimate request fails or
\* returns a result that is not hex, the fixed fallback; a failed estimate never
\* aborts the submission.
C26_GasLimit ==
  [][\A c \in Calls :
       /\ (calls[c].pc = "rpc_estimateGas" /\ calls'[c] # calls[c]) =>
            calls'[c].pc = "rpc_postFee"
       /\ calls'[c].pc \in {"rpc_postFee", "rpc_send"} =>
            calls'[c].gasLimit = (EstimateOrFallback * 122) \div 100]_vars

C26_Witness ==
  /\ endpoint.estimateGas = Fail
  /\ \E c \in Calls : calls[c].pc = "rpc_send" /\ calls[c].gasLimit = 366000

\* the reads whose request is at the endpoint
ReadsInFlight == {r \in Readers : reads[r].reqId # 0}

C28_TransportOutcome ==
  [][\A r \in Readers : \A resp \in Responses :
       (reads[r].pc = "rpc_getIds" /\ ApplyRead(r, AfterIds(ReadWorld(r), resp))) =>
         /\ reads'[r].pc # "failed" <=>
              (resp.fetch = "ok" /\ resp.body # "notjson" /\ resp.error = "absent")
         /\ (resp.fetch = "ok" /\ resp.body = "object" /\ resp.error = "object") =>
              (reads'[r].err = "rpc error" /\ reads'[r].code = resp.code)
         /\ (resp.fetch = "ok" /\ resp.body = "notjson") =>
              reads'[r].err = "non-JSON response"
         /\ resp.fetch # "ok" => reads'[r].err \in {"timed out", "failed"}
         /\ reads'[r].pc \in {"done", "failed"} => ~reads'[r].timer]_vars

\* C29: every polling loop terminates when each RPC call returns or fails in
\* bounded time: the transaction-presence poll and the pending-nonce poll make
\* at most `attempts` lookups (rounds), a receipt poll makes no lookup once its
\* timeout has elapsed and then returns the no-receipt result, and a loop that
\* was entered ends.
C29_PollsTerminate ==
  /\ []((poll.pc = "rpc" /\ poll.kind \in AttemptPolls) => poll.i + 1 <= poll.attempts)
  /\ []((poll.pc = "rpc" /\ poll.kind \in ReceiptPolls) => poll.elapsed < poll.timeout)
  /\ []((poll.pc = "returned" /\ poll.kind \in ReceiptPolls /\ poll.result # "receipt") =>
          (poll.elapsed >= poll.timeout /\ poll.result \in {"null", "pending"}))
  /\ (poll.pc \in {"rpc", "sleep"}) ~> (poll.pc \in {"returned", "threw"})

C29_Witness ==
  /\ poll.kind = "waitForReceipt"
  /\ poll.pc = "returned"
  /\ poll.result = "null"
  /\ poll.timeout = MaxTimeout
  /\ poll.elapsed = poll.timeout

\* C30: when the caller's send timeout fires before postSignal has settled, the
\* submission is cancelled: once the timeout is reported it issues no further RPC
\* request, in particular no eth_sendRawTransaction, and it does not run while
\* the next submission runs.
C30_TimedOutIsCancelled ==
  [][\A c \in Calls :
       c \in timedOut =>
         /\ calls'[c] # calls[c] => calls'[c].pc \in {"done", "failed"}
         /\ calls'[c].pc = "rpc_send" => calls[c].pc = "rpc_send"
         /\ \A d \in Calls :
              (d > c /\ calls'[d].pc \notin {"idle", "done", "failed"}) =>
                calls'[c].pc \in {"done", "failed"}]_vars

\* C31: the progress timer started for a submission is cancelled on every exit
\* path of the call it decorates: once the submission has succeeded, failed or
\* timed out the timer is not active and ticks no more.
C31_ProgressTimerCancelled ==
  [][/\ (run.pc = "post" /\ run'.pc # "post") => ~run'.timer
     /\ run'.timer => run'.pc = "post"
     /\ run'.ticks > run.ticks => (run.pc = "post" /\ run'.pc = "post")]_vars

C31_Witness ==
  /\ run.showProgress
  /\ run.outcome = "timeout"
  /\ run.chainErrors # {}
  /\ run.pc # "post"
  /\ ~run.timer

\* C32: a run that is not allowed to send to chain (a manual run without the
\* force-send flag) never calls postSignal and never broadcasts, whatever the
\* feedback setting is.
C32_NoPostWithoutPermission ==
  (run.runType = "manual" /\ ~run.forceSend) => (run.posted = {} /\ run.broadcast = {})

\* C37: within one run a failed on-chain post for one strategy (validation
\* error, RPC error or send timeout) is caught and logged as a chain_error
\* record, and the remaining strategies are still decided, logged and posted.
C37_FailedPostDoesNotStopRun ==
  [][/\ \A outcome \in RaceOutcomes \ {"ok"} :
          (run.pc = "post" /\ run' = AfterRace(run, outcome)) =>
            /\ run.strategy \in run'.chainErrors
            /\ run'.pc = "done" => \A k \in Strategies : k > run.strategy => k \notin run.dataOk
     /\ run'.pc = "done" =>
          /\ run'.logged = Strategies
          /\ run'.decided = run'.dataOk
          /\ run'.chain => run'.posted = run'.dataOk
          /\ run'.chainErrors \cup run'.broadcast = run'.posted]_vars

C37_Witness ==
  /\ run.pc = "done"
  /\ 1 \in run.chainErrors
  /\ MaxStrategies \in run.broadcast

C34_RejectedRequestLeavesClient ==
  [][\A c \in Calls : \A req \in CallerRequests :
       (ValidationError(req) # "none" /\ Start(c, req))
         => /\ calls'[c].pc = "failed"
            /\ calls'[c].err = ValidationError(req)
            /\ ~calls'[c].usedRpc
            /\ calls'[c].nSend = 0
            /\ nextNonce' = nextNonce
            /\ rpcId' = rpcId
            /\ supports1559' = supports1559
            /\ remoteChainId' = remoteChainId
            /\ idsCache' = idsCache
            /\ sigCache' = sigCache]_vars

C34_Witness ==
  /\ calls[1].pc = "done"
  /\ calls[2].pc = "failed"
  /\ ~calls[2].usedRpc
  /\ calls[2].err = ValidationError([BaseRequest EXCEPT !.strategyName = Str(31, 0)])
  /\ nextNonce = calls[1].result.nonce + 1
  /\ supports1559 # "null"
  /\ remoteChainId # NULL
\* C35: when invocations follow one another and the last request shape of
\* eth_getTransactionCount fails too, the invocation fails with that request's
\* error, the cursor stays uninitialised and no nonce is handed out; an
\* invocation that reaches the allocator while the cursor is uninitialised asks
\* the endpoint again, starting from the first request shape, and a count the
\* endpoint then gives is the nonce returned, the cursor going to that count
\* plus one.
C35_FailedCountLeavesCursor ==
  [][\A c \in Calls :
       /\ \A ans \in TxCountAnswers :
            (calls[c].pc = "rpc_txCount" /\ Apply(c, AfterTxCount(World(c), ans)))
              => IF ans.ok
                   THEN /\ calls'[c].nonce = ans.v
                        /\ nextNonce' = ans.v + 1
                        /\ allocLog' = Append(allocLog, ans.v)
                   ELSE IF calls[c].rung = TxCountShapes
                     THEN /\ calls'[c].pc = "failed"
                          /\ calls'[c].err = ans.err
                          /\ nextNonce = NULL /\ nextNonce' = NULL
                          /\ allocLog' = allocLog
                     ELSE /\ calls'[c].pc = "rpc_txCount"
                          /\ calls'[c].rung = calls[c].rung + 1
                          /\ nextNonce' = NULL
       /\ (/\ nextNonce = NULL
           /\ calls[c].pc \in {"idle", "rpc_chainId"}
           /\ calls'[c].pc \notin {"idle", "rpc_chainId", "failed"})
            => (calls'[c].pc = "rpc_txCount" /\ calls'[c].rung = 1)]_vars

C35_Witness ==
  /\ calls[1].pc = "failed"
  /\ calls[1].err \in ErrorKinds
  /\ calls[2].pc = "rpc_estimateGas"
  /\ calls[2].nonce \in TxCounts
  /\ allocLog = <<calls[2].nonce>>
  /\ nextNonce = calls[2].nonce + 1

\* C36: an explanation the provider's schema lets through (1 to 280 characters),
\* once tidied and handed to postSignal, is at most 280 characters long and is not
\* rejected for an over-long message.
C36_TidiedExplanationFits ==
  (tidy.pc = "posted" /\ SchemaAccepts(tidy.text))
    => (Len(tidy.out) <= MaxMessageLen /\ tidy.err # "Invalid message")

\* C38: encoding a signal with mapDecisionToChain, posting the pair and decoding
\* the entry with the feedback mapping yields the original signal for LONG_CASH
\* and SHORT_ASSET with every chain asset label, and for LONG_ASSET with every
\* label that does not read USD once trimmed and upper-cased; LONG_ASSET with
\* such a label comes back as LONG_CASH.
C38_RoundTripExceptLongUsd ==
  codec.pc = "read"
    => codec.readBack =
         IF codec.signal = "LONG_ASSET" /\ ToUpperCase(TrimAsset(codec.chainAsset)) = "USD"
           THEN "LONG_CASH"
           ELSE codec.signal

C38_Witness ==
  /\ codec.pc = "read"
  /\ codec.signal = "LONG_CASH"
  /\ codec.chainAsset = "ETH"
  /\ codec.storedAsset = "USD"
  /\ codec.storedTarget = 0
  /\ codec.readBack = "LONG_CASH"

\* C38 as stated: the round trip yields the original signal for every signal
\* and every chain asset label.
C38_RoundTripEveryLabel ==
  codec.pc = "read" => codec.readBack = codec.signal

\* the errors C39 calls transient: no response, 408, 409, 425, 429 and 5xx
Transient(status) ==
  status = NoResponse \/ status \in {408, 409, 425, 429} \/ status \in 500..599
\* the errors C39 calls final: the other 4xx
Final(status) == status \in 400..499 /\ status \notin {408, 409, 425, 429}

\* C39: postWithRetry makes at most retries + 1 attempts; every attempt before
\* the last one made ended in a transient error (no response, 408, 409, 425, 429
\* or 5xx); it returns as soon as an attempt succeeds; it goes on to another
\* attempt only after a transient error, so a 4xx other than 408, 409, 425, 429
\* ends it; when it throws, it throws the error of the last attempt made, and
\* that error is not a transient one unless all retries + 1 attempts were made.
C39_RetryDiscipline ==
  LET n == Len(retry.seen)
  IN  /\ retry.attempts <= retry.retries + 1
      /\ retry.attempts = n + (IF retry.pc = "posting" THEN 1 ELSE 0)
      /\ \A i \in 1..(n - 1) : Transient(retry.seen[i])
      /\ retry.pc = "returned" => retry.seen[n] \in ResolvedStatuses
      /\ retry.pc \in {"sleeping", "posting"} =>
           \A i \in 1..n : Transient(retry.seen[i]) /\ ~Final(retry.seen[i])
      /\ retry.pc = "sleeping" => n <= retry.retries
      /\ retry.pc = "thrown" =>
           /\ n >= 1
           /\ retry.thrown = retry.seen[n]
           /\ retry.seen[n] \in RejectedStatuses
           /\ Transient(retry.seen[n]) => n = retry.retries + 1

C39_Witness ==
  /\ retry.pc = "thrown"
  /\ retry.retries = 2
  /\ retry.seen = <<NoResponse, 429, 503>>
  /\ retry.thrown = 503

====
